---- MODULE Spec2Model ----
(***************************************************************************)
(* Model of the authenticated scraping engine of pages/2_BBO.py:           *)
(* login_to_bbo, handle_timezone_redirect, scrape_bbo_hands and the part   *)
(* of main() that stores the Session and drives the fetches.               *)
(*                                                                         *)
(* The remote site is the environment: every request either raises (a      *)
(* network failure or timeout) or returns a response chosen from a small   *)
(* set.  A response is the part of requests.Response the code reads: the   *)
(* final URL, the markers contained in the body text and, for a data page, *)
(* the tables of the parsed document.                                      *)
(***************************************************************************)
EXTENDS Integers, Sequences, FiniteSets, TLC

\* Bounds of the environment.
MaxTables == 2      \* tables in a data page
MaxInputs == 2      \* hidden inputs in the login form
MaxCookies == 2     \* cookies in an exported cookie text
MaxStatRows == 2    \* rows in the document statistics are extracted from
MaxOffset == 150    \* seconds the local zone is ahead of or behind UTC
MaxTicks == 3       \* seconds that pass while time ranges are computed
MaxPlayers == 6     \* player records in the roster of the federation page

\* Python's None.
None == "<None>"

(***************************************************************************)
(* Remote responses                                                        *)
(***************************************************************************)

\* 'login.php' in url
HasLoginPhp(url) == url \in {"myhands/myhands_login.php"}

\* Body markers: the substrings the code tests response.text for.
JsMarker == "Javascript support is needed"
LogoutMarker == "logout.php"
NoHandsMarker == "You have no saved hands"

\* Tables of a data page.  classes/id are the attributes the CSS selectors
\* read, nrows is len(find_all('tr')), ths the texts of find_all('th').
TableMarks ==
    { [classes |-> {},           id |-> ""],
      [classes |-> {"body"},     id |-> ""],
      [classes |-> {},           id |-> "hand_results"] }

TableShapes ==
    { [nrows |-> 1, ths |-> <<"Date">>],
      [nrows |-> 2, ths |-> <<"Score">>],
      [nrows |-> 2, ths |-> <<"Score", "Date">>] }

\* A table that a known selector matches is taken whatever its rows and
\* headers are (they are read by the generic scan only): it comes in one
\* shape, one the generic scan would reject.
Tables ==
    { t \in { [classes |-> m.classes, id |-> m.id, nrows |-> s.nrows,
               ths |-> s.ths] : m \in TableMarks, s \in TableShapes } :
        (t.classes # {} \/ t.id # "") => t.ths = <<"Score">> }

\* Documents: the tables of the page in document order.
Documents == UNION { [1..n -> Tables] : n \in 0..MaxTables }

NoDoc == <<>>

\* A response that was never received.
NoResponse == [got |-> FALSE, url |-> "", text |-> {}, doc |-> NoDoc]

\* Responses of the pages that carry no result table.
PageResponses ==
    { [got |-> TRUE, url |-> u, text |-> m, doc |-> NoDoc] :
        u \in {"myhands/index.php", "myhands/myhands_login.php"},
        m \in SUBSET {JsMarker, LogoutMarker} }

\* Responses of the landing endpoint: the authenticated page, the page
\* without logout link, the redirect to the login page.
LandingResponses ==
    { [got |-> TRUE, url |-> "myhands/index.php", text |-> {LogoutMarker}, doc |-> NoDoc],
      [got |-> TRUE, url |-> "myhands/index.php", text |-> {}, doc |-> NoDoc],
      [got |-> TRUE, url |-> "myhands/myhands_login.php", text |-> {}, doc |-> NoDoc] }

\* Responses to a GET of the data URL.
DataResponses ==
    { [got |-> TRUE, url |-> u, text |-> m, doc |-> d] :
        u \in {"myhands/hands.php", "myhands/myhands_login.php"},
        m \in SUBSET {JsMarker, NoHandsMarker},
        d \in Documents }

\* Responses to the first GET of the data URL.  The document of a page that
\* carries the JavaScript marker is never parsed (the response is replaced
\* by the re-issued one), so that page comes without tables.
FirstDataResponses ==
    { r \in DataResponses : JsMarker \in r.text => r.doc = NoDoc }

(***************************************************************************)
(* Login form (login page parsed by BeautifulSoup)                         *)
(***************************************************************************)

\* <input type="hidden">: name and value are input_field.get(...), None
\* when the attribute is missing.
HiddenInputs ==
    { [name |-> None,    value |-> "v1"],
      [name |-> "t",     value |-> "/other.php"],
      [name |-> "t",     value |-> None],
      [name |-> "csrf",  value |-> "v1"],
      [name |-> "password", value |-> "v1"] }

\* form = soup.find('form', method='post'): None, or the hidden inputs of
\* the form in document order.
NoForm == [found |-> FALSE, inputs |-> <<>>]
Forms ==
    {NoForm} \cup
    { [found |-> TRUE, inputs |-> s] :
        s \in UNION { [1..n -> HiddenInputs] : n \in 0..MaxInputs } }

\* Caller-supplied credentials.
Username == "alice"
Password == "secret"

EmptyDict == [k \in {} |-> None]

\* dict.update
DictUpdate(a, b) ==
    [k \in DOMAIN a \cup DOMAIN b |-> IF k \in DOMAIN b THEN b[k] ELSE a[k]]

\* d[k] = v
DictSet(d, k, v) == [x \in DOMAIN d \cup {k} |-> IF x = k THEN v ELSE d[x]]

\* The loop over form.find_all('input', type='hidden').
RECURSIVE CollectHidden(_, _, _)
CollectHidden(inputs, i, acc) ==
    IF i > Len(inputs) THEN acc
    ELSE CollectHidden(inputs, i + 1,
            IF inputs[i].name # None
            THEN DictSet(acc, inputs[i].name, inputs[i].value)
            ELSE acc)

\* Mutant: the defaults for 't' and 'count' are not added.
mutant_HiddenFields(form) ==
    IF form.found THEN CollectHidden(form.inputs, 1, EmptyDict) ELSE EmptyDict

\* hidden_fields after the defaults for 't' and 'count' were added.
HiddenFields(form) ==
    LET found == IF form.found
                 THEN CollectHidden(form.inputs, 1, EmptyDict)
                 ELSE EmptyDict
        withT == IF "t" \notin DOMAIN found
                 THEN DictSet(found, "t", "/myhands/index.php?")
                 ELSE found
    IN  IF "count" \notin DOMAIN withT
        THEN DictSet(withT, "count", "1")
        ELSE withT

\* login_data as passed to session.post.
LoginData(username, password, form) ==
    DictUpdate(
        [k \in {"username", "password", "submit", "keep"} |->
            CASE k = "username" -> username
              [] k = "password" -> password
              [] k = "submit"   -> "Login"
              [] k = "keep"     -> "on"],
        HiddenFields(form))

(***************************************************************************)
(* Table location (scrape_bbo_hands)                                       *)
(***************************************************************************)

table_selectors == <<"table.body", "table#hand_results", "table.hands", "table.handlist">>

\* Whether a table matches a CSS selector of the list.
Matches(selector, t) ==
    CASE selector = "table.body"         -> "body" \in t.classes
      [] selector = "table#hand_results" -> t.id = "hand_results"
      [] selector = "table.hands"        -> "hands" \in t.classes
      [] selector = "table.handlist"     -> "handlist" \in t.classes

\* Positions of a document; a table is identified by its position, 0 is None.
Pos(doc) == 1..Len(doc)

Min(S) == CHOOSE x \in S : \A y \in S : x <= y

Range(f) == {f[x] : x \in DOMAIN f}

\* soup.select_one(selector): the first match in document order, or None.
select_one(doc, selector) ==
    LET hits == {i \in Pos(doc) : Matches(selector, doc[i])}
    IN  IF hits = {} THEN 0 ELSE Min(hits)

\* for selector in table_selectors: ... if table: break
RECURSIVE SelectorLoop(_, _)
SelectorLoop(doc, k) ==
    IF k > Len(table_selectors) THEN 0
    ELSE LET table == select_one(doc, table_selectors[k])
         IN  IF table # 0 THEN table ELSE SelectorLoop(doc, k + 1)

\* h.text.lower() on the header texts of the model.
Lower(s) ==
    CASE s = "Date"  -> "date"
      [] s = "Score" -> "score"
      [] OTHER       -> s

\* 'date' in s
ContainsDate(s) == s \in {"date"}

\* Mutant: the row count is not tested.
mutant_LooksLikeHands(t) ==
    /\ Len(t.ths) > 0
    /\ \E j \in 1..Len(t.ths) : t.ths[j] # "" /\ ContainsDate(Lower(t.ths[j]))

\* The test of the generic scan on one table.
LooksLikeHands(t) ==
    /\ t.nrows > 1
    /\ Len(t.ths) > 0
    /\ \E j \in 1..Len(t.ths) : t.ths[j] # "" /\ ContainsDate(Lower(t.ths[j]))

\* for potential_table in soup.find_all('table'): first table that passes.
GenericScan(doc) ==
    LET hits == {i \in Pos(doc) : LooksLikeHands(doc[i])}
    IN  IF hits = {} THEN 0 ELSE Min(hits)

\* Mutant: the generic scan runs before the known selectors.
mutant_LocateTable(doc) ==
    LET byScan == GenericScan(doc)
    IN  IF byScan # 0 THEN [table |-> byScan, how |-> "generic"]
        ELSE LET bySel == SelectorLoop(doc, 1)
             IN  IF bySel # 0 THEN [table |-> bySel, how |-> "selector"]
                 ELSE [table |-> 0, how |-> "exhausted"]

\* The table scrape_bbo_hands locates in a document (0: none) and the stage
\* that found it.
LocateTable(doc) ==
    LET bySel == SelectorLoop(doc, 1)
    IN  IF bySel # 0 THEN [table |-> bySel, how |-> "selector"]
        ELSE LET byScan == GenericScan(doc)
             IN  IF byScan # 0 THEN [table |-> byScan, how |-> "generic"]
                 ELSE [table |-> 0, how |-> "exhausted"]

(***************************************************************************)
(* parse_cookie_text                                                       *)
(***************************************************************************)

\* A text is a sequence of pieces: single characters and, for the
\* punctuation of a JSON document, chunks that hold no '=', no line break and
\* no white space at their ends.
Whitespace == {" ", "\t", "\r", "\n"}

\* Cookie names are tokens; a value may be empty and may contain '='.
CookieNames == {<<"a">>, <<"b">>}
CookieValues == {<<"1">>, <<"x", "=", "y">>, <<>>}
CookiePairs == [name : CookieNames, value : CookieValues]
PairSeqs == UNION {[1..n -> CookiePairs] : n \in 0..MaxCookies}

\* Python values: a dict (val is the mapping), a list (val is the sequence
\* of its items, each a dict), and the scalars json.loads can return.
PyDict(d) == [type |-> "dict", val |-> d]
PyList(items) == [type |-> "list", val |-> items]
PyInt == [type |-> "int", val |-> EmptyDict]
PyStr == [type |-> "str", val |-> EmptyDict]
PyNone == [type |-> "NoneType", val |-> EmptyDict]
\* An exception was raised instead of a value returned.
Raised == [type |-> "raised", val |-> EmptyDict]
\* The text is not a JSON document.
NotJson == [type |-> "invalid", val |-> EmptyDict]

\* The text of a JSON list of objects, written on one line.
RenderObject(o) ==
    <<"{">>
    \o (IF "name" \in DOMAIN o
        THEN <<"\"name\":\"">> \o o.name \o <<"\"">> ELSE <<>>)
    \o (IF {"name", "value"} \subseteq DOMAIN o THEN <<",">> ELSE <<>>)
    \o (IF "value" \in DOMAIN o
        THEN <<"\"value\":\"">> \o o.value \o <<"\"">> ELSE <<>>)
    \o <<"}">>

RECURSIVE RenderItems(_, _)
RenderItems(items, i) ==
    IF i > Len(items) THEN <<>>
    ELSE (IF i > 1 THEN <<",">> ELSE <<>>) \o RenderObject(items[i])
         \o RenderItems(items, i + 1)

\* A cookie text: its pieces and what json.loads makes of it.
JsonListText(items) ==
    [json |-> PyList(items), chars |-> <<"[">> \o RenderItems(items, 1) \o <<"]">>]
RawText(chars) == [json |-> NotJson, chars |-> chars]

\* The line format: one name=value per line.
RECURSIVE RenderLines(_, _)
RenderLines(pairs, i) ==
    IF i > Len(pairs) THEN <<>>
    ELSE (IF i > 1 THEN <<"\n">> ELSE <<>>)
         \o pairs[i].name \o <<"=">> \o pairs[i].value
         \o RenderLines(pairs, i + 1)

LinesText(pairs) == RawText(RenderLines(pairs, 1))

\* Texts that are neither: JSON documents that are no list of cookies, a
\* list whose item lacks its value, lines with blanks, text without '='.
OtherTexts ==
    { [json |-> PyInt, chars |-> <<"4", "2">>],
      [json |-> PyStr, chars |-> <<"\"", "a", "=", "1", "\"">>],
      [json |-> PyNone, chars |-> <<"null">>],
      [json |-> PyDict([k \in {<<"a">>} |-> <<"1">>]),
       chars |-> <<"{\"">>  \o <<"a">> \o <<"\":\"">> \o <<"1">> \o <<"\"}">>],
      JsonListText(<<[name |-> <<"a">>]>>),
      JsonListText(<<[name |-> <<"a">>, value |-> <<"1">>],
                     [name |-> <<"x", "=", "y">>]>>),
      RawText(<<" ", "a", "=", "1", " ", "\r", "\n", "\n", "b">>),
      RawText(<<"h", "i">>) }

\* Where a pasted text comes from: an export of a sequence of cookies in one
\* of the two formats, or anything else.
Exported(ps) == [known |-> TRUE, pairs |-> ps]
NoPairs == [known |-> FALSE, pairs |-> <<>>]
CookieInputs ==
    {[text |-> JsonListText(ps), origin |-> Exported(ps)] : ps \in PairSeqs}
        \cup {[text |-> LinesText(ps), origin |-> Exported(ps)] : ps \in PairSeqs}
        \cup {[text |-> t, origin |-> NoPairs] : t \in OtherTexts}

\* The text area before anything is pasted, and cookies_dict before the call.
NoText == RawText(<<>>)
NoCookies == [type |-> "unset", val |-> EmptyDict]

\* Position of the first piece c in s, 0 when there is none.
FirstIndex(s, c) ==
    IF \E i \in 1..Len(s) : s[i] = c
    THEN Min({i \in 1..Len(s) : s[i] = c}) ELSE 0

\* str.split(c)
RECURSIVE Split(_, _)
Split(s, c) ==
    LET i == FirstIndex(s, c)
    IN  IF i = 0 THEN <<s>>
        ELSE <<SubSeq(s, 1, i - 1)>> \o Split(SubSeq(s, i + 1, Len(s)), c)

\* Mutant: split('=') without the limit.
mutant_SplitOnce(s, c) == Split(s, c)

\* str.split(c, 1)
SplitOnce(s, c) ==
    LET i == FirstIndex(s, c)
    IN  IF i = 0 THEN <<s>>
        ELSE <<SubSeq(s, 1, i - 1), SubSeq(s, i + 1, Len(s))>>

\* str.strip()
RECURSIVE Strip(_)
Strip(s) ==
    IF s # <<>> /\ Head(s) \in Whitespace THEN Strip(Tail(s))
    ELSE IF s # <<>> /\ s[Len(s)] \in Whitespace
    THEN Strip(SubSeq(s, 1, Len(s) - 1))
    ELSE s

\* The loop over cookie_text.split('\n').
RECURSIVE ParseLines(_, _, _)
ParseLines(lines, i, cookies) ==
    IF i > Len(lines) THEN cookies
    ELSE ParseLines(lines, i + 1,
            IF "=" \in Range(lines[i])
            THEN LET parts == SplitOnce(Strip(lines[i]), "=")
                 IN  DictSet(cookies, parts[1], parts[2])
            ELSE cookies)

\* The except branch: the simple name=value format.
LineParse(text) == PyDict(ParseLines(Split(text.chars, "\n"), 1, EmptyDict))

\* {c['name']: c['value'] for c in cookies}
RECURSIVE Comprehension(_, _, _)
Comprehension(items, i, acc) ==
    IF i > Len(items) THEN acc
    ELSE Comprehension(items, i + 1,
                       DictSet(acc, items[i].name, items[i].value))

\* The try branch: json.loads, then the list of cookies or the value as it is.
\* json.loads raises on a text that is no JSON document, the comprehension on
\* an item without 'name' or 'value'.
StructuredParse(text) ==
    LET cookies == text.json
    IN  IF cookies.type = "invalid" THEN Raised
        ELSE IF cookies.type = "list"
        THEN IF \A i \in 1..Len(cookies.val) :
                    {"name", "value"} \subseteq DOMAIN cookies.val[i]
             THEN PyDict(Comprehension(cookies.val, 1, EmptyDict))
             ELSE Raised
        ELSE cookies

parse_cookie_text(cookie_text) ==
    LET structured == StructuredParse(cookie_text)
    IN  IF structured.type = "raised" THEN LineParse(cookie_text)
        ELSE structured

(***************************************************************************)
(* extract_player_statistics                                               *)
(***************************************************************************)

\* Texts are sequences of pieces, as for the cookies; a label is cut where
\* one known label starts inside another ("IMPs Average" holds "MPs Average").
IMPsTotal == <<"I", "MPs", " ", "Total">>
IMPsAverage == <<"I", "MPs", " ", "Average">>
MPsAverage == <<"MPs", " ", "Average">>
TotalMasterpoints == <<"Total", " ", "Masterpoints">>
KnownLabels == {IMPsTotal, IMPsAverage, MPsAverage, TotalMasterpoints}

\* key in label
Contains(label, key) ==
    \E i \in 0..(Len(label) - Len(key)) :
        SubSeq(label, i + 1, i + Len(key)) = key

\* Values of the decimal digits.
DigitOf ==
    [c \in {"0", "1", "2", "3", "4", "5", "6", "7", "8", "9"} |->
        CASE c = "0" -> 0 [] c = "1" -> 1 [] c = "2" -> 2 [] c = "3" -> 3
          [] c = "4" -> 4 [] c = "5" -> 5 [] c = "6" -> 6 [] c = "7" -> 7
          [] c = "8" -> 8 [] c = "9" -> 9]

IsDigits(s) == \A i \in 1..Len(s) : s[i] \in DOMAIN DigitOf

RECURSIVE NatOf(_)
NatOf(s) ==
    IF s = <<>> THEN 0
    ELSE 10 * NatOf(SubSeq(s, 1, Len(s) - 1)) + DigitOf[s[Len(s)]]

\* Floats are kept as integers, in hundredths.
Scale == 100

\* A conversion that succeeded, and one that raised ValueError.
Parsed(v) == [ok |-> TRUE, val |-> v]
ValueError == [ok |-> FALSE, val |-> 0]

Unsigned(s) == IF s # <<>> /\ Head(s) \in {"-", "+"} THEN Tail(s) ELSE s
Signed(s, v) == IF s # <<>> /\ Head(s) = "-" THEN 0 - v ELSE v

\* int(text): an optional sign and digits.
ParseInt(text) ==
    LET body == Unsigned(text)
    IN  IF body # <<>> /\ IsDigits(body) THEN Parsed(Signed(text, NatOf(body)))
        ELSE ValueError

\* float(text): an optional sign, digits, an optional point and digits; the
\* texts of the model have at most two digits after the point.
ParseFloat(text) ==
    LET body == Unsigned(text)
        dot == FirstIndex(body, ".")
        whole == IF dot = 0 THEN body ELSE SubSeq(body, 1, dot - 1)
        frac == IF dot = 0 THEN <<>> ELSE SubSeq(body, dot + 1, Len(body))
        cents == IF Len(frac) = 0 THEN 0
                 ELSE IF Len(frac) = 1 THEN 10 * NatOf(frac)
                 ELSE NatOf(SubSeq(frac, 1, 2))
    IN  IF /\ IsDigits(whole) /\ IsDigits(frac)
           /\ Len(whole) + Len(frac) > 0
        THEN Parsed(Signed(text, Scale * NatOf(whole) + cents))
        ELSE ValueError

\* str.replace('%', '')
NotPercent(c) == c # "%"

\* Mutant: the text is converted as it stands.
mutant_DropPercent(text) == text

DropPercent(text) == SelectSeq(text, NotPercent)

\* Cells and rows of the document.
NoCell == [class |-> "none", text |-> <<>>]
Cell(class, text) == [class |-> class, text |-> text]
Row(cls, th, cells) == [cls |-> cls, th |-> th, cells |-> cells]

\* The rows a document can hold: aggregate rows with well-formed and with
\* malformed cells, a row with an unknown label, a row without th, a row
\* that is neither odd nor even.
StatRows ==
    { Row("odd", <<IMPsTotal>>,
          <<Cell("score", <<"1", "2", ".", "5">>), Cell("numhands", <<"1", "7">>)>>),
      Row("even", <<IMPsTotal \o <<" ", "(all)">>>>,
          <<Cell("negscore", <<" ", "-", "3", " ">>), Cell("numhands", <<"9">>)>>),
      Row("odd", <<IMPsTotal>>,
          <<Cell("score", <<"n", "/", "a">>), Cell("numhands", <<"1", "7">>)>>),
      Row("odd", <<IMPsTotal>>,
          <<Cell("score", <<"4">>), Cell("numhands", <<"1", ".", "5">>)>>),
      Row("even", <<IMPsAverage>>,
          <<Cell("negscore", <<"-", "0", ".", "2", "5">>)>>),
      Row("odd", <<MPsAverage>>,
          <<Cell("score", <<"6", "4", ".", "3", "%">>), Cell("numhands", <<"8">>)>>),
      Row("odd", <<MPsAverage>>,
          <<Cell("score", <<"n", "/", "a">>), Cell("numhands", <<"8">>)>>),
      Row("even", <<MPsAverage>>,
          <<Cell("score", <<"6", "4", ".", "3">>)>>),
      Row("even", <<TotalMasterpoints>>,
          <<Cell("score", <<"1", "2", "0">>)>>),
      Row("even", <<TotalMasterpoints>>,
          <<Cell("score", <<"1", ",", "2", "3", "4">>)>>),
      Row("odd", <<<<"Total", " ", "Boards">>>>,
          <<Cell("score", <<"5">>)>>),
      Row("odd", <<>>,
          <<Cell("score", <<"7">>)>>),
      Row("totals", <<IMPsTotal>>,
          <<Cell("score", <<"9", "9">>)>>) }

StatDocs == UNION {[1..n -> StatRows] : n \in 0..MaxStatRows}

StatFields ==
    {"IMPs_Total", "IMPs_Hands", "IMPs_Average", "MPs_Average", "MPs_Hands",
     "Total_Masterpoints"}

\* stats as initialised.
ZeroStats == [f \in StatFields |-> 0]

\* The outcome of the rows processed so far: stats, and whether an exception
\* was raised.
Going(st) == [raised |-> FALSE, stats |-> st]
Thrown(st) == [raised |-> TRUE, stats |-> st]

\* row.find('td', class_=classes): the first such cell, None without one.
Find(row, classes) ==
    IF \E i \in 1..Len(row.cells) : row.cells[i].class \in classes
    THEN row.cells[Min({i \in 1..Len(row.cells) :
                           row.cells[i].class \in classes})]
    ELSE NoCell

\* if cell: stats[field] = conversion; v is the conversion of the cell's text.
Assign(r, field, cell, v) ==
    IF r.raised \/ cell = NoCell THEN r
    ELSE IF v.ok THEN Going([r.stats EXCEPT ![field] = v.val])
    ELSE Thrown(r.stats)

SetFloat(r, field, cell) ==
    Assign(r, field, cell, ParseFloat(Strip(cell.text)))
SetInt(r, field, cell) ==
    Assign(r, field, cell, ParseInt(Strip(cell.text)))
\* The MPs average: the '%' signs are removed before the conversion.
SetPercent(r, field, cell) ==
    Assign(r, field, cell, ParseFloat(DropPercent(Strip(cell.text))))

\* The branch of the if/elif chain the label of a row selects.
Branch(row) ==
    IF row.th = <<>> \/ row.cells = <<>> THEN "none"
    ELSE LET label == Strip(row.th[1])
         IN  IF Contains(label, IMPsTotal) THEN "IMPs Total"
             ELSE IF Contains(label, IMPsAverage) THEN "IMPs Average"
             ELSE IF Contains(label, MPsAverage) THEN "MPs Average"
             ELSE IF Contains(label, TotalMasterpoints)
             THEN "Total Masterpoints"
             ELSE "none"

\* The body of the loop for one row.
ProcessRow(row, st) ==
    LET branch == Branch(row)
        r == Going(st)
    IN  IF branch = "IMPs Total"
        THEN SetInt(SetFloat(r, "IMPs_Total",
                             Find(row, {"score", "negscore"})),
                    "IMPs_Hands", Find(row, {"numhands"}))
        ELSE IF branch = "IMPs Average"
        THEN SetFloat(r, "IMPs_Average", Find(row, {"score", "negscore"}))
        ELSE IF branch = "MPs Average"
        THEN SetInt(SetPercent(r, "MPs_Average", Find(row, {"score"})),
                    "MPs_Hands", Find(row, {"numhands"}))
        ELSE IF branch = "Total Masterpoints"
        THEN SetFloat(r, "Total_Masterpoints", Find(row, {"score"}))
        ELSE r

\* for row in total_rows, inside the one try block: an exception ends the
\* loop.
RECURSIVE RowLoop(_, _, _)
RowLoop(rows, i, st) ==
    IF i > Len(rows) THEN Going(st)
    ELSE LET r == ProcessRow(rows[i], st)
         IN  IF r.raised THEN r ELSE RowLoop(rows, i + 1, r.stats)

\* soup.find_all('tr', class_=['odd', 'even'])
IsTotalRow(row) == row.cls \in {"odd", "even"}
total_rows(doc) == SelectSeq(doc, IsTotalRow)

\* Mutant: the loop runs outside a try block.
mutant_ExtractReturn(r) == r

\* except Exception: the error is logged; return stats.
ExtractReturn(r) == Going(r.stats)

extract_player_statistics(doc) ==
    ExtractReturn(RowLoop(total_rows(doc), 1, ZeroStats))

(***************************************************************************)
(* State                                                                   *)
(***************************************************************************)

VARIABLES
    pc,               \* position of the running operation; "idle": the page waits
    mode,             \* "single" or "all" during a fetch, else "none"
    idx,              \* position of the All-Players loop in the roster
    has_session,      \* hasattr(st.session_state, 'session')
    expired_seen,     \* history: a fetch saw a login redirect on the stored
                      \* Session (the code keeps no such field)
    reqs,             \* requests issued by the running call, in order
    caller,           \* who invoked handle_timezone_redirect
    timezone_handled, \* its return value: "True" or "False", "unset" before
    tz_response,      \* handle_timezone_redirect: response to its POST
    alt_response,     \* handle_timezone_redirect: response to its GET; both
                      \* are dropped when the caller issues its next request
    in_flight,        \* requests handed to the Session and not yet answered
    form,             \* login_to_bbo: the POST form of the login page
    login_data,       \* login_to_bbo: the body of the login POST
    login_response,   \* login_to_bbo: response to the login POST
    test_response,    \* login_to_bbo: response to the verification GET;
                      \* manual_login: response to its GET of the same page
    analysis,         \* login_to_bbo: what the failure analysis wrote
    proxy_config,     \* main(): the proxy configuration of the run
    stored_proxy,     \* st.session_state.proxy_config
    session,          \* login_to_bbo, manual_login: the Session the call
                      \* builds (a fetch works on the stored one)
    stored_session,   \* st.session_state.session
    carried,          \* the headers of the request last handed to a Session
    cookie_text,      \* manual_login: the text pasted into the text area
    cookie_pairs,     \* history: the cookies the pasted text is an export of
    cookies_dict,     \* manual_login: what parse_cookie_text made of it
    stats_rows,       \* the tr elements of the document statistics are
                      \* extracted from
    stats,            \* what extract_player_statistics returned for them
    utc_offset,       \* the UTC offset of the local zone, in seconds
    offset,           \* what get_local_timezone_offset returned for it
    tz_data,          \* handle_timezone_redirect: the body of its POST
    clock,            \* the moment, in seconds since the epoch (UTC)
    zone,             \* the local zone of the caller
    called_at,        \* the moments get_bbo_time_range was last called and
                      \* returned
    time_range,       \* the (start, end) pair it returned
    range_by,         \* which page computed it, for which timeframe
    selected_player,  \* federation page: the entry of the select box
    players_to_fetch, \* federation page: the records handed to the pool
    task,             \* federation page: the state of each pool task
    results,          \* federation page: what each task returned
    all_competitions, \* federation page: the rows collected from them
    refresh_resp,     \* scrape_bbo_hands: response to the landing-page GET
    response,         \* scrape_bbo_hands: latest response to the data GET
    result,           \* value returned by the last call
    note,             \* message the last scrape_bbo_hands call emitted
    how               \* stage of table location the last call ended in

vars ==
    <<pc, mode, idx, has_session, expired_seen, reqs, caller, timezone_handled,
      tz_response, alt_response, in_flight, form, login_data, login_response,
      test_response, analysis, proxy_config, stored_proxy, session,
      stored_session, carried, refresh_resp, response,
      result, note, how, cookie_text, cookie_pairs, cookies_dict, stats_rows,
      stats, utc_offset, offset, tz_data, clock, zone, called_at, time_range,
      range_by, selected_player, players_to_fetch, task, results,
      all_competitions>>

loginVars == <<form, login_data, login_response, test_response, analysis>>
scrapeVars == <<refresh_resp, response>>
pageVars == <<has_session, expired_seen, stored_proxy, stored_session>>
headerVars == <<session, carried>>
loopVars == <<mode, idx>>
outVars == <<result, note, how>>
tzVars == <<caller, timezone_handled>>
tzLocals == <<tz_response, alt_response>>
manualVars == <<cookie_text, cookie_pairs, cookies_dict>>
statsVars == <<stats_rows, stats>>
offsetVars == <<utc_offset, offset, tz_data>>
rangeVars == <<clock, zone, called_at, time_range, range_by>>
poolVars ==
    <<selected_player, players_to_fetch, task, results, all_competitions>>
\* What the login and fetch operations of the hand-records page never touch.
sideVars == <<statsVars, offsetVars, rangeVars, poolVars>>
\* The state of the hand-records page's login and fetch operations.
mainVars ==
    <<loopVars, pageVars, reqs, in_flight, tzVars, tzLocals, loginVars,
      scrapeVars, outVars, manualVars, proxy_config, headerVars>>

\* The roster (players_dict): the platform handle of each player, "" when
\* the record has none.
Roster == <<"", "handle2", "handle3">>

\* Endpoints.
HomeUrl == "https://www.bridgebase.com/myhands/"
LoginUrl == "https://www.bridgebase.com/myhands/myhands_login.php"
LandingUrl == "https://www.bridgebase.com/myhands/index.php"
TzUrl == "https://www.bridgebase.com/myhands/index.php?&from_login=1"
TzAltUrl == "https://www.bridgebase.com/myhands/index.php?offset="
DataUrl == "https://www.bridgebase.com/myhands/hands.php?"

\* session.get(alt_url, proxies=proxy): no timeout argument is passed.
NoTimeout == 0

\* A request: method, URL, the timeout argument and the form data.
Request(method, url, timeout, data) ==
    [method |-> method, url |-> url, timeout |-> timeout, data |-> data]

\* tz_data = {"offset": str(offset)}
TzData == [k \in {"offset"} |-> "str(offset)"]

\* session.get(f"{base_url}/", timeout=10)
HomeRequest == Request("GET", HomeUrl, 10, EmptyDict)
\* session.get(login_url, timeout=10)
LoginPageRequest == Request("GET", LoginUrl, 10, EmptyDict)
\* session.post(login_handler_url, data=login_data, timeout=15)
LoginPostRequest(data) == Request("POST", LoginUrl, 15, data)
\* session.get(f"{base_url}/index.php", timeout=10)
VerifyRequest == Request("GET", LandingUrl, 10, EmptyDict)
\* manual_login: session.get(test_url, timeout=10)
ManualRequest == Request("GET", LandingUrl, 10, EmptyDict)
\* session.post(tz_url, data=tz_data, timeout=15)
TzPostRequest == Request("POST", TzUrl, 15, TzData)
\* session.get(alt_url, proxies=proxy)
TzAltRequest == Request("GET", TzAltUrl, NoTimeout, EmptyDict)
\* Mutant: the fetch renews the Session by posting the credentials.
mutant_RefreshRequest ==
    LoginPostRequest(LoginData(Username, Password, NoForm))

\* session.get(".../myhands/index.php", timeout=10)
RefreshRequest == Request("GET", LandingUrl, 10, EmptyDict)
\* session.get(url, timeout=15), issued before and after the handshake
DataRequest == Request("GET", DataUrl, 15, EmptyDict)

\* Values a call returns.
NoResult == [of |-> "none", isNone |-> TRUE, soup |-> NoDoc, table |-> 0]
LoginNone == [of |-> "login", isNone |-> TRUE, soup |-> NoDoc, table |-> 0]
LoginSession == [of |-> "login", isNone |-> FALSE, soup |-> NoDoc, table |-> 0]
\* manual_login: return None, return session
ManualNone == [of |-> "manual", isNone |-> TRUE, soup |-> NoDoc, table |-> 0]
ManualSession == [of |-> "manual", isNone |-> FALSE, soup |-> NoDoc, table |-> 0]
\* The pair (None, None).
NonePair == [of |-> "scrape", isNone |-> TRUE, soup |-> NoDoc, table |-> 0]
\* The four "return None, None" of scrape_bbo_hands: login redirect seen,
\* no-saved-hands marker, no table located, exception caught.
ReturnExpired == NonePair
ReturnNoHands == NonePair
ReturnNoTable == NonePair
ReturnError == NonePair
\* return soup, table
SoupTable(doc, table) ==
    [of |-> "scrape", isNone |-> FALSE, soup |-> doc, table |-> table]

\* The "Login Failure Analysis" expander: the labels written, and after the
\* labels the final URL of the login response, the form data and the
\* response snippet.
NoAnalysis ==
    [labels |-> {}, url |-> "", form_data |-> EmptyDict, snippet |-> {}]
Analysis(post, data) ==
    [labels |-> {"Status Code:", "Final URL:", "Response Length:",
                 "Form Data Submitted:", "Response snippet:"},
     url |-> post.url, form_data |-> data, snippet |-> post.text]

\* The proxy field of the automatic form: empty, blank, a host without
\* scheme, a URL.
ProxyInputs ==
    {<<>>, <<" ">>, <<"host:8080">>, <<"http", "://", "host:8080">>}

\* proxy_config: None, or the same URL for http and https.
NoProxy == [kind |-> "None", url |-> <<>>]
UnsetProxy == [kind |-> "unset", url |-> <<>>]

\* if proxy and proxy.strip(): a proxy without scheme gets "http://".
ProxyConfig(proxy) ==
    IF proxy # <<>> /\ Strip(proxy) # <<>>
    THEN [kind |-> "dict",
          url |-> IF proxy[1] = "http" THEN proxy
                  ELSE <<"http", "://">> \o proxy]
    ELSE NoProxy

(***************************************************************************)
(* The default headers of a Session                                        *)
(***************************************************************************)

\* 'application/x-www-form-urlencoded'
FormUrlencoded == "application/x-www-form-urlencoded"

\* requests.Session(): the headers the library gives a new Session.
DefaultHeaders ==
    "User-Agent" :> "python-requests" @@ "Accept-Encoding" :> "gzip, deflate"
    @@ "Accept" :> "*/*" @@ "Connection" :> "keep-alive"

\* login_to_bbo: "Set realistic browser headers".
BrowserHeaders ==
    "User-Agent" :> "Mozilla/5.0 (Windows NT 10.0; Win64; x64) AppleWebKit/537.36 (KHTML, like Gecko) Chrome/120.0.0.0 Safari/537.36"
    @@ "Accept" :> "text/html,application/xhtml+xml,application/xml;q=0.9,image/avif,image/webp,image/apng,*/*;q=0.8,application/signed-exchange;v=b3;q=0.7"
    @@ "Accept-Language" :> "en-US,en;q=0.9"
    @@ "Accept-Encoding" :> "gzip, deflate, br"
    @@ "DNT" :> "1"
    @@ "Connection" :> "keep-alive"
    @@ "Upgrade-Insecure-Requests" :> "1"
    @@ "Sec-Fetch-Dest" :> "document"
    @@ "Sec-Fetch-Mode" :> "navigate"
    @@ "Sec-Fetch-Site" :> "same-origin"
    @@ "Sec-Fetch-User" :> "?1"

\* login_to_bbo: session.headers.update({'Referer': home_url})
LoginPageHeaders == "Referer" :> HomeUrl

\* login_to_bbo: the update that precedes the login POST.
LoginPostHeaders ==
    "Content-Type" :> FormUrlencoded
    @@ "Origin" :> "https://www.bridgebase.com"
    @@ "Referer" :> LoginUrl

\* Mutant: the handshake sets the content type only.
mutant_TzHeaders == "Content-Type" :> FormUrlencoded

\* handle_timezone_redirect: the update that precedes its POST.
TzHeaders == "Content-Type" :> FormUrlencoded @@ "Referer" :> LandingUrl

\* scrape_bbo_hands: headers, passed with both data GETs.
FetchHeaders ==
    "Referer" :> LandingUrl
    @@ "Sec-Fetch-Dest" :> "document"
    @@ "Sec-Fetch-Mode" :> "navigate"
    @@ "Sec-Fetch-Site" :> "same-origin"
    @@ "Sec-Fetch-User" :> "?1"

\* A Session: its default headers (session.headers) and, as history,
\* whether handle_timezone_redirect has posted on it.
SessionOf(headers, posted) == [headers |-> headers, handshaken |-> posted]
NoSession == SessionOf(EmptyDict, FALSE)

\* session = requests.Session()
NewSession == SessionOf(DefaultHeaders, FALSE)

\* session.headers.update(update)
Updated(s, update) == SessionOf(DictUpdate(s.headers, update), s.handshaken)

\* The headers a request goes out with: the defaults of the Session,
\* overridden name by name by the headers argument of the call.
Prepared(defaults, own) == DictUpdate(defaults, own)

\* The page before any button is pressed.
PageInit ==
    /\ mode = "none"
    /\ idx = 0
    /\ has_session = FALSE
    /\ expired_seen = FALSE
    /\ reqs = <<>>
    /\ caller = "none"
    /\ timezone_handled = "unset"
    /\ tz_response = NoResponse
    /\ alt_response = NoResponse
    /\ in_flight = <<>>
    /\ form = NoForm
    /\ login_data = EmptyDict
    /\ login_response = NoResponse
    /\ test_response = NoResponse
    /\ analysis = NoAnalysis
    /\ proxy_config = NoProxy
    /\ stored_proxy = UnsetProxy
    /\ session = NoSession
    /\ stored_session = NoSession
    /\ carried = EmptyDict
    /\ refresh_resp = NoResponse
    /\ response = NoResponse
    /\ result = NoResult
    /\ note = "none"
    /\ how = "none"
    /\ cookie_text = NoText
    /\ cookie_pairs = NoPairs
    /\ cookies_dict = NoCookies

\* No document is at hand.
StatsIdle ==
    /\ stats_rows = <<>>
    /\ stats = Going(ZeroStats)

\* No offset was asked for.
OffsetIdle ==
    /\ utc_offset = 0
    /\ offset = 0
    /\ tz_data = EmptyDict

\* No time range was asked for.
RangeIdle ==
    /\ clock = 0
    /\ zone = [now |-> 0, then |-> 0]
    /\ called_at = <<0, 0>>
    /\ time_range = <<0, 0>>
    /\ range_by = [page |-> "none", timeframe |-> "none"]

\* The federation page is not open.
PoolIdle ==
    /\ selected_player = "none"
    /\ players_to_fetch = <<>>
    /\ task = <<>>
    /\ results = <<>>
    /\ all_competitions = <<>>

Init ==
    /\ pc = "idle"
    /\ PageInit
    /\ StatsIdle
    /\ OffsetIdle
    /\ RangeIdle
    /\ PoolIdle

\* The locals of a call that starts.
FreshLocals ==
    /\ reqs' = <<>>
    /\ caller' = "none"
    /\ timezone_handled' = "unset"
    /\ tz_response' = NoResponse
    /\ alt_response' = NoResponse
    /\ in_flight' = <<>>
    /\ form' = NoForm
    /\ login_data' = EmptyDict
    /\ login_response' = NoResponse
    /\ test_response' = NoResponse
    /\ analysis' = NoAnalysis
    /\ carried' = EmptyDict
    /\ refresh_resp' = NoResponse
    /\ response' = NoResponse
    /\ result' = NoResult
    /\ note' = "none"
    /\ how' = "none"
    /\ cookie_text' = NoText
    /\ cookie_pairs' = NoPairs
    /\ cookies_dict' = NoCookies

(***************************************************************************)
(* Requests on the Session                                                 *)
(***************************************************************************)

\* Positions at which the running call is about to issue a request.
RequestPcs ==
    {"login_home", "login_page", "login_post", "login_verify", "tz_post",
     "tz_get", "scrape_refresh", "scrape_get", "scrape_retry",
     "manual_verify"}

\* The request the running call issues at its position.
NextRequest ==
    CASE pc = "login_home" -> HomeRequest
      [] pc = "login_page" -> LoginPageRequest
      [] pc = "login_post" -> LoginPostRequest(login_data)
      [] pc = "login_verify" -> VerifyRequest
      [] pc = "tz_post" -> TzPostRequest
      [] pc = "tz_get" -> TzAltRequest
      [] pc = "scrape_refresh" -> RefreshRequest
      [] pc = "scrape_get" -> DataRequest
      [] pc = "scrape_retry" -> DataRequest
      [] pc = "manual_verify" -> ManualRequest

\* Mutant: a request call returns before the response has arrived.
mutant_Blocked == FALSE

\* session.get / session.post are synchronous: the caller is held inside the
\* call until the response arrives or the call raises.
Blocked == in_flight # <<>>

\* The running call works on the stored Session: a fetch, or the handshake
\* a fetch called.
OnStored ==
    \/ pc \in {"scrape_refresh", "scrape_get", "scrape_retry"}
    \/ pc \in {"tz_post", "tz_get"} /\ caller = "scrape"

\* The session.headers.update that precedes the request of the position.
HeaderUpdate ==
    CASE pc = "login_page" -> LoginPageHeaders
      [] pc = "login_post" -> LoginPostHeaders
      [] pc = "tz_post" -> TzHeaders
      [] OTHER -> EmptyDict

\* The headers argument of the request of the position.
RequestHeaders ==
    IF pc \in {"scrape_get", "scrape_retry"} THEN FetchHeaders ELSE EmptyDict

\* The Session s after the statements that lead to the request.
Readied(s) ==
    SessionOf(DictUpdate(s.headers, HeaderUpdate),
              s.handshaken \/ pc = "tz_post")

\* The running call hands its next request to the Session, after the header
\* update that precedes it in the code.
SendRequest ==
    /\ pc \in RequestPcs
    /\ ~Blocked
    /\ in_flight' = Append(in_flight, NextRequest)
    /\ IF OnStored
       THEN /\ stored_session' = Readied(stored_session)
            /\ carried' = Prepared(stored_session'.headers, RequestHeaders)
            /\ UNCHANGED session
       ELSE /\ session' = Readied(session)
            /\ carried' = Prepared(session'.headers, RequestHeaders)
            /\ UNCHANGED stored_session
    /\ UNCHANGED <<pc, loopVars, has_session, expired_seen, stored_proxy, reqs,
                   tzVars, tzLocals, loginVars, scrapeVars, outVars>>
    /\ UNCHANGED manualVars
    /\ UNCHANGED proxy_config
    /\ UNCHANGED sideVars

\* The request in flight is answered or raises: it joins the log.
Answered ==
    /\ in_flight # <<>>
    /\ reqs' = Append(reqs, Head(in_flight))
    /\ in_flight' = Tail(in_flight)

(***************************************************************************)
(* login_to_bbo                                                            *)
(***************************************************************************)

\* main(): the "Login" button of the automatic form was pressed.
StartLogin ==
    /\ pc = "idle"
    /\ FreshLocals
    /\ \E proxy \in ProxyInputs : proxy_config' = ProxyConfig(proxy)
    /\ session' = Updated(NewSession, BrowserHeaders)
    /\ pc' = "login_home"
    /\ UNCHANGED <<pageVars, loopVars>>
    /\ UNCHANGED sideVars

\* Mutant: main() stores whatever the login returned.
mutant_Truthy(r) == TRUE

\* if session: a Session is truthy, None is not.
Truthy(r) == ~r.isNone

\* login_to_bbo or manual_login returns r; main() stores a Session it got,
\* together with the proxy configuration of the run.
LoginReturn(r) ==
    /\ result' = r
    /\ pc' = "idle"
    /\ IF Truthy(r)
       THEN /\ has_session' = TRUE
            /\ stored_proxy' = proxy_config
            /\ stored_session' = session
            /\ expired_seen' = FALSE
       ELSE UNCHANGED pageVars
    /\ proxy_config' = IF has_session' THEN stored_proxy' ELSE proxy_config

\* Step 1: GET of the home page.
LoginHomeGet ==
    /\ pc = "login_home"
    /\ Answered
    /\ \E ok \in BOOLEAN :
         IF ok
         THEN pc' = "login_page" /\ UNCHANGED <<result, pageVars, proxy_config>>
         ELSE LoginReturn(LoginNone)
    /\ UNCHANGED <<loopVars, tzVars, tzLocals, loginVars, scrapeVars, note,
                   how>>
    /\ UNCHANGED manualVars
    /\ UNCHANGED headerVars
    /\ UNCHANGED sideVars

\* Step 2: GET of the login page, discovery of the form fields.
LoginPageGet ==
    /\ pc = "login_page"
    /\ Answered
    /\ \/ \E f \in Forms :
            /\ form' = f
            /\ login_data' = LoginData(Username, Password, f)
            /\ pc' = "login_post"
            /\ UNCHANGED <<result, pageVars, proxy_config>>
       \/ /\ LoginReturn(LoginNone)
          /\ UNCHANGED <<form, login_data>>
    /\ UNCHANGED <<loopVars, tzVars, tzLocals, login_response, test_response,
                   analysis,
                   scrapeVars, note, how>>
    /\ UNCHANGED manualVars
    /\ UNCHANGED headerVars
    /\ UNCHANGED sideVars

\* Mutant: the handshake runs whenever the POST response shows no logout link.
mutant_HandshakeNeeded(r) == LogoutMarker \notin r.text

\* if "Javascript support is needed for this page" in login_response.text
HandshakeNeeded(r) == JsMarker \in r.text

\* Step 3: POST of the login form; the JavaScript page starts the handshake.
LoginPost ==
    /\ pc = "login_post"
    /\ Answered
    /\ \/ \E r \in PageResponses :
            /\ login_response' = r
            /\ IF HandshakeNeeded(r)
               THEN pc' = "tz_post" /\ caller' = "login"
               ELSE pc' = "login_verify" /\ UNCHANGED caller
            /\ UNCHANGED <<result, pageVars, proxy_config>>
       \/ /\ LoginReturn(LoginNone)
          /\ UNCHANGED <<login_response, caller>>
    /\ UNCHANGED <<loopVars, timezone_handled, tzLocals, form, login_data,
                   test_response, analysis, scrapeVars, note, how>>
    /\ UNCHANGED manualVars
    /\ UNCHANGED headerVars
    /\ UNCHANGED sideVars

\* Mutant: a failed handshake fails the login.
mutant_LoginVerified(post, handled, test) ==
    LogoutMarker \in test.text /\ handled # "False"

\* if 'logout.php' in test_response.text: the login is verified.  post and
\* handled are the login POST response and the handshake result.
LoginVerified(post, handled, test) == LogoutMarker \in test.text

\* Verification: GET of the landing page, logout marker decides.
LoginVerify ==
    /\ pc = "login_verify"
    /\ Answered
    /\ \/ \E r \in LandingResponses :
            /\ test_response' = r
            /\ IF LoginVerified(login_response, timezone_handled, r)
               THEN LoginReturn(LoginSession) /\ UNCHANGED analysis
               ELSE /\ analysis' = Analysis(login_response, login_data)
                    /\ LoginReturn(LoginNone)
       \/ /\ LoginReturn(LoginNone)
          /\ UNCHANGED <<test_response, analysis>>
    /\ tz_response' = NoResponse
    /\ alt_response' = NoResponse
    /\ UNCHANGED <<loopVars, tzVars, form, login_data, login_response,
                   scrapeVars, note, how>>
    /\ UNCHANGED manualVars
    /\ UNCHANGED headerVars
    /\ UNCHANGED sideVars

(***************************************************************************)
(* manual_login                                                            *)
(***************************************************************************)

\* main(): the "Use Manual Cookies" button was pressed.
StartManual ==
    /\ pc = "idle"
    /\ FreshLocals
    /\ proxy_config' = NoProxy
    /\ session' = NewSession
    /\ pc' = "manual_parse"
    /\ UNCHANGED <<pageVars, loopVars>>
    /\ UNCHANGED sideVars

\* requests.utils.add_dict_to_cookiejar(session.cookies, cookies_dict): a
\* mapping is loaded name by name, None leaves the jar empty, any other value
\* raises when its items are read.
Loads(cookies) == cookies.type \in {"dict", "NoneType"}

\* The pasted text is parsed and loaded into the jar of a new Session; an
\* exception ends the call with "Invalid cookies".
ManualParse ==
    /\ pc = "manual_parse"
    /\ \E input \in CookieInputs :
          /\ cookie_text' = input.text
          /\ cookie_pairs' = input.origin
          /\ cookies_dict' = parse_cookie_text(input.text)
          /\ IF Loads(parse_cookie_text(input.text))
             THEN pc' = "manual_verify" /\ UNCHANGED <<result, pageVars, proxy_config>>
             ELSE LoginReturn(ManualNone)
    /\ UNCHANGED <<loopVars, reqs, in_flight, tzVars, tzLocals, loginVars,
                   scrapeVars, note, how>>
    /\ UNCHANGED headerVars
    /\ UNCHANGED sideVars

\* Mutant: a response that is no redirect to the login page verifies.
mutant_ManualVerified(r) == ~HasLoginPhp(r.url)

\* if 'logout.php' in response.text
ManualVerified(r) == LogoutMarker \in r.text

\* Verification: GET of the landing page, logout marker decides.
ManualVerify ==
    /\ pc = "manual_verify"
    /\ Answered
    /\ \/ \E r \in LandingResponses :
            /\ test_response' = r
            /\ LoginReturn(IF ManualVerified(r)
                           THEN ManualSession ELSE ManualNone)
       \/ /\ LoginReturn(ManualNone)
          /\ UNCHANGED test_response
    /\ UNCHANGED <<loopVars, tzVars, tzLocals, form, login_data, login_response,
                   analysis, scrapeVars, note, how, manualVars>>
    /\ UNCHANGED headerVars
    /\ UNCHANGED sideVars

(***************************************************************************)
(* handle_timezone_redirect                                                *)
(***************************************************************************)

\* Mutant: the fetch goes back to the checked data GET after the handshake.
mutant_TzReturn(b) ==
    /\ timezone_handled' = IF b THEN "True" ELSE "False"
    /\ pc' = IF caller = "login" THEN "login_verify" ELSE "scrape_get"

\* The handshake returns b to its caller.
TzReturn(b) ==
    /\ timezone_handled' = IF b THEN "True" ELSE "False"
    /\ pc' = IF caller = "login" THEN "login_verify" ELSE "scrape_retry"

\* Mutant: any response that arrived counts as a handled handshake.
mutant_TzAccepted(r) == r.got

\* if 'logout.php' in response.text / in alt_response.text
TzAccepted(r) == LogoutMarker \in r.text

\* Responses to the handshake requests: only the logout marker is read.
TzResponses == {r \in LandingResponses : ~HasLoginPhp(r.url)}

\* POST of the offset to the landing endpoint.
TzPost ==
    /\ pc = "tz_post"
    /\ Answered
    /\ \/ \E r \in TzResponses :
            /\ tz_response' = r
            /\ IF TzAccepted(r)
               THEN TzReturn(TRUE)
               ELSE pc' = "tz_get" /\ UNCHANGED timezone_handled
       \/ /\ TzReturn(FALSE)
          /\ UNCHANGED tz_response
    /\ UNCHANGED <<loopVars, pageVars, caller, alt_response, loginVars,
                   scrapeVars, outVars>>
    /\ UNCHANGED manualVars
    /\ UNCHANGED proxy_config
    /\ UNCHANGED headerVars
    /\ UNCHANGED sideVars

\* The alternative: GET with the offset as query parameter.
TzGet ==
    /\ pc = "tz_get"
    /\ Answered
    /\ \/ \E r \in TzResponses :
            /\ alt_response' = r
            /\ TzReturn(TzAccepted(r))
       \/ /\ TzReturn(FALSE)
          /\ UNCHANGED alt_response
    /\ UNCHANGED <<loopVars, pageVars, caller, tz_response, loginVars,
                   scrapeVars, outVars>>
    /\ UNCHANGED manualVars
    /\ UNCHANGED proxy_config
    /\ UNCHANGED headerVars
    /\ UNCHANGED sideVars

(***************************************************************************)
(* scrape_bbo_hands                                                        *)
(***************************************************************************)

\* A fetch call starts on the stored Session.
StartScrape ==
    /\ FreshLocals
    /\ session' = NoSession
    /\ pc' = "scrape_refresh"

\* scrape_bbo_hands returns r after emitting message n; the caller goes on.
ScrapeReturn(r, n, h) ==
    /\ result' = r
    /\ note' = n
    /\ how' = h
    /\ pc' = IF mode = "all" THEN "loop" ELSE "idle"

\* Mutant: the table is located before the no-saved-hands marker is tested.
mutant_ParseResponse(r) ==
    LET loc == LocateTable(r.doc)
    IN  IF loc.table # 0
        THEN ScrapeReturn(SoupTable(r.doc, loc.table), "none", loc.how)
        ELSE IF NoHandsMarker \in r.text
        THEN ScrapeReturn(ReturnNoHands, "no_hands", "skipped")
        ELSE ScrapeReturn(ReturnNoTable, "no_table", loc.how)

\* The checks and the table location that follow the (last) data response.
ParseResponse(r) ==
    IF NoHandsMarker \in r.text
    THEN ScrapeReturn(ReturnNoHands, "no_hands", "skipped")
    ELSE LET loc == LocateTable(r.doc)
         IN  IF loc.table # 0
             THEN ScrapeReturn(SoupTable(r.doc, loc.table), "none", loc.how)
             ELSE ScrapeReturn(ReturnNoTable, "no_table", loc.how)

\* Mutant: the redirect is looked for in the body text.
mutant_ExpiredAtRefresh(r) == "login.php" \in r.text

\* if 'login.php' in refresh_resp.url
ExpiredAtRefresh(r) == HasLoginPhp(r.url)

\* Mutant: the redirect is looked for in the body text.
mutant_ExpiredAtData(r) == "login.php" \in r.text

\* if 'login.php' in response.url
ExpiredAtData(r) == HasLoginPhp(r.url)

\* Responses to the landing-page GET of a fetch: the authenticated page and
\* the redirect to the login page (only the final URL is read).
RefreshResponses ==
    {r \in LandingResponses : HasLoginPhp(r.url) \/ LogoutMarker \in r.text}

\* Refresh: GET of the landing page, login redirect ends the call.
ScrapeRefresh ==
    /\ pc = "scrape_refresh"
    /\ Answered
    /\ \/ \E r \in RefreshResponses :
            /\ refresh_resp' = r
            /\ IF ExpiredAtRefresh(r)
               THEN /\ ScrapeReturn(ReturnExpired, "expired_refresh", "skipped")
                    /\ expired_seen' = TRUE
               ELSE /\ pc' = "scrape_get"
                    /\ UNCHANGED <<outVars, expired_seen>>
       \/ /\ ScrapeReturn(ReturnError, "error", "skipped")
          /\ UNCHANGED <<refresh_resp, expired_seen>>
    /\ UNCHANGED <<loopVars, has_session, stored_proxy, stored_session,
                   tzVars, tzLocals, loginVars, response>>
    /\ UNCHANGED manualVars
    /\ UNCHANGED proxy_config
    /\ UNCHANGED headerVars
    /\ UNCHANGED sideVars

\* GET of the data URL and the checks on its response.
ScrapeGet ==
    /\ pc = "scrape_get"
    /\ Answered
    /\ \/ \E r \in FirstDataResponses :
            /\ response' = r
            /\ IF ExpiredAtData(r)
               THEN /\ ScrapeReturn(ReturnExpired, "expired_data", "skipped")
                    /\ expired_seen' = TRUE
                    /\ UNCHANGED caller
               ELSE IF JsMarker \in r.text
               THEN /\ pc' = "tz_post"
                    /\ caller' = "scrape"
                    /\ UNCHANGED <<outVars, expired_seen>>
               ELSE /\ ParseResponse(r)
                    /\ UNCHANGED <<caller, expired_seen>>
       \/ /\ ScrapeReturn(ReturnError, "error", "skipped")
          /\ UNCHANGED <<response, caller, expired_seen>>
    /\ UNCHANGED <<loopVars, has_session, stored_proxy, stored_session,
                   timezone_handled, tzLocals, loginVars, refresh_resp>>
    /\ UNCHANGED manualVars
    /\ UNCHANGED proxy_config
    /\ UNCHANGED headerVars
    /\ UNCHANGED sideVars

\* The data GET re-issued after the handshake.
ScrapeRetry ==
    /\ pc = "scrape_retry"
    /\ Answered
    /\ \/ \E r \in DataResponses :
            /\ response' = r
            /\ ParseResponse(r)
       \/ /\ ScrapeReturn(ReturnError, "error", "skipped")
          /\ UNCHANGED response
    /\ tz_response' = NoResponse
    /\ alt_response' = NoResponse
    /\ UNCHANGED <<loopVars, pageVars, tzVars, loginVars, refresh_resp>>
    /\ UNCHANGED manualVars
    /\ UNCHANGED proxy_config
    /\ UNCHANGED headerVars
    /\ UNCHANGED sideVars

(***************************************************************************)
(* main(): the fetch buttons                                               *)
(***************************************************************************)

\* "Fetch Hand Records" for one player that has a platform handle.
StartFetchSingle ==
    /\ pc = "idle"
    /\ has_session
    /\ StartScrape
    /\ proxy_config' = stored_proxy
    /\ mode' = "single"
    /\ idx' = 0
    /\ UNCHANGED pageVars
    /\ UNCHANGED sideVars

\* "Fetch Hand Records" for "All Players": the loop over the roster starts.
StartFetchAll ==
    /\ pc = "idle"
    /\ has_session
    /\ FreshLocals
    /\ session' = NoSession
    /\ proxy_config' = stored_proxy
    /\ pc' = "loop"
    /\ mode' = "all"
    /\ idx' = 0
    /\ UNCHANGED pageVars
    /\ UNCHANGED sideVars

\* The loop skips a player without platform handle.
LoopSkip ==
    /\ pc = "loop"
    /\ idx < Len(Roster)
    /\ Roster[idx + 1] = ""
    /\ idx' = idx + 1
    /\ UNCHANGED <<pc, mode, pageVars, reqs, tzVars, tzLocals, in_flight,
                   loginVars, scrapeVars, outVars>>
    /\ UNCHANGED manualVars
    /\ UNCHANGED proxy_config
    /\ UNCHANGED headerVars
    /\ UNCHANGED sideVars

\* The loop fetches the next player on the stored Session.
LoopFetch ==
    /\ pc = "loop"
    /\ idx < Len(Roster)
    /\ Roster[idx + 1] # ""
    /\ idx' = idx + 1
    /\ StartScrape
    /\ UNCHANGED <<mode, pageVars>>
    /\ UNCHANGED proxy_config
    /\ UNCHANGED sideVars

\* The loop ends.
LoopEnd ==
    /\ pc = "loop"
    /\ idx = Len(Roster)
    /\ pc' = "idle"
    /\ mode' = "none"
    /\ idx' = 0
    /\ UNCHANGED <<pageVars, reqs, tzVars, tzLocals, in_flight, loginVars,
                   scrapeVars, outVars>>
    /\ UNCHANGED manualVars
    /\ UNCHANGED proxy_config
    /\ UNCHANGED headerVars
    /\ UNCHANGED sideVars

Next ==
    \/ SendRequest
    \/ StartLogin
    \/ LoginHomeGet
    \/ LoginPageGet
    \/ LoginPost
    \/ LoginVerify
    \/ StartManual
    \/ ManualParse
    \/ ManualVerify
    \/ TzPost
    \/ TzGet
    \/ StartFetchSingle
    \/ StartFetchAll
    \/ LoopSkip
    \/ LoopFetch
    \/ LoopEnd
    \/ ScrapeRefresh
    \/ ScrapeGet
    \/ ScrapeRetry

Spec == Init /\ [][Next]_vars

(***************************************************************************)
(* Statistics extraction on its own                                        *)
(***************************************************************************)

\* A document is at hand, nothing else goes on.
StatsInit ==
    /\ pc = "extract"
    /\ PageInit
    /\ stats_rows \in StatDocs
    /\ stats = Going(ZeroStats)
    /\ OffsetIdle
    /\ RangeIdle
    /\ PoolIdle

\* stats = extract_player_statistics(soup)
ExtractStats ==
    /\ pc = "extract"
    /\ stats' = extract_player_statistics(stats_rows)
    /\ pc' = "extracted"
    /\ UNCHANGED <<mainVars, stats_rows, offsetVars, rangeVars, poolVars>>

StatsNext == ExtractStats

StatsSpec == StatsInit /\ [][StatsNext]_vars

(***************************************************************************)
(* get_local_timezone_offset on its own                                    *)
(***************************************************************************)

\* utc_offset.total_seconds(), for offsets of whole seconds.
Offsets == -MaxOffset..MaxOffset

\* int(a / b) for b > 0: the quotient, truncated toward zero.
IntOfQuotient(a, b) == IF a >= 0 THEN a \div b ELSE -((-a) \div b)

\* return int(utc_offset.total_seconds() / 60)
get_local_timezone_offset(seconds) == IntOfQuotient(seconds, 60)

\* str(n) of an int: its decimal digits, after a minus sign when negative.
DigitChars == <<"0", "1", "2", "3", "4", "5", "6", "7", "8", "9">>

RECURSIVE Decimal(_)
Decimal(n) ==
    IF n < 10 THEN <<DigitChars[n + 1]>>
    ELSE Append(Decimal(n \div 10), DigitChars[(n % 10) + 1])

StrOfInt(n) == IF n < 0 THEN <<"-">> \o Decimal(-n) ELSE Decimal(n)

\* The local zone has some offset, nothing else goes on.
OffsetInit ==
    /\ pc = "offset"
    /\ PageInit
    /\ StatsIdle
    /\ utc_offset \in Offsets
    /\ offset = 0
    /\ tz_data = EmptyDict
    /\ RangeIdle
    /\ PoolIdle

\* offset = get_local_timezone_offset()
GetOffset ==
    /\ pc = "offset"
    /\ offset' = get_local_timezone_offset(utc_offset)
    /\ pc' = "offset_done"
    /\ UNCHANGED <<mainVars, statsVars, utc_offset, tz_data, rangeVars,
                   poolVars>>

\* tz_data = {"offset": str(offset)}
BuildTzData ==
    /\ pc = "offset_done"
    /\ tz_data' = [k \in {"offset"} |-> StrOfInt(offset)]
    /\ pc' = "tz_data"
    /\ UNCHANGED <<mainVars, statsVars, utc_offset, offset, rangeVars,
                   poolVars>>

OffsetNext ==
    \/ GetOffset
    \/ BuildTzData

OffsetSpec == OffsetInit /\ [][OffsetNext]_vars

(***************************************************************************)
(* get_bbo_time_range on its own                                           *)
(***************************************************************************)

\* datetime.now() at the start of the run, in seconds since the epoch (UTC).
FirstMoment == 1700000000

\* timedelta(days=1), in seconds.
Day == 86400

\* Local zones: the UTC offset now, the UTC offset before the zone's last
\* change of offset, and the days since that change (0: the offset never
\* changed).  UTC, two zones of fixed offset, a zone that left daylight
\* saving time three days ago.
Zones ==
    { [now |-> 0, then |-> 0, since |-> 0],
      [now |-> 7200, then |-> 7200, since |-> 0],
      [now |-> -18000, then |-> -18000, since |-> 0],
      [now |-> 7200, then |-> 10800, since |-> 3] }

\* The UTC offset the zone z had the given number of days ago.
OffsetAt(z, days_back) ==
    IF z.since > 0 /\ days_back >= z.since THEN z.then ELSE z.now

\* datetime.now(): the naive local time at moment c, in seconds since
\* 1970-01-01 00:00 on the local clock.
LocalNow(c, z) == c + z.now

\* naive.timestamp(): the local time is read in the offset the zone had at
\* that local time.
Timestamp(local, off) == local - off

\* int((datetime.now() - timedelta(days=days_back)).timestamp()) at moment c.
get_unix_timestamp(c, z, days_back) ==
    Timestamp(LocalNow(c, z) - days_back * Day, OffsetAt(z, days_back))

\* The entries of the timeframe select box.
Timeframes == {"Last Month", "Last Week", "Last 2 Weeks", "Last Day"}

\* timeframes.get(timeframe, 30)
Days(timeframe) ==
    CASE timeframe = "Last Day" -> 1
      [] timeframe = "Last Week" -> 7
      [] timeframe = "Last 2 Weeks" -> 14
      [] timeframe = "Last Month" -> 30
      [] OTHER -> 30

\* pages/2_BBO.py, get_bbo_time_range(timeframe): the start is computed at
\* moment c1, the end by a second call of datetime.now() at moment c2.
BboTimeRange(c1, c2, z, timeframe) ==
    <<get_unix_timestamp(c1, z, Days(timeframe)), get_unix_timestamp(c2, z, 0)>>

\* (naive - datetime(1970, 1, 1)).total_seconds()
SinceNaiveEpoch(local) == local

\* bridgeCompetitors.py, get_bbo_time_range(): today is read once.
CompetitorsTimeRange(c, z) ==
    <<SinceNaiveEpoch(LocalNow(c, z) - 30 * Day), SinceNaiveEpoch(LocalNow(c, z))>>

\* The caller sits in some zone, nothing else goes on.
RangeInit ==
    /\ pc = "range"
    /\ PageInit
    /\ StatsIdle
    /\ OffsetIdle
    /\ clock = FirstMoment
    /\ zone \in Zones
    /\ called_at = <<0, 0>>
    /\ time_range = <<0, 0>>
    /\ range_by = [page |-> "none", timeframe |-> "none"]
    /\ PoolIdle

\* A second passes.
Tick ==
    /\ pc = "range"
    /\ clock < FirstMoment + MaxTicks
    /\ clock' = clock + 1
    /\ UNCHANGED <<pc, mainVars, statsVars, offsetVars, zone, called_at,
                   time_range, range_by, poolVars>>

\* pages/2_BBO.py: start_time, end_time = get_bbo_time_range(timeframe)
FetchTimeRange ==
    /\ pc = "range"
    /\ \E timeframe \in Timeframes, d \in {0, 1} :
          /\ clock + d <= FirstMoment + MaxTicks
          /\ clock' = clock + d
          /\ called_at' = <<clock, clock + d>>
          /\ time_range' = BboTimeRange(clock, clock + d, zone, timeframe)
          /\ range_by' = [page |-> "2_BBO", timeframe |-> timeframe]
    /\ UNCHANGED <<pc, mainVars, statsVars, offsetVars, zone, poolVars>>

\* bridgeCompetitors.py: start_time, end_time = get_bbo_time_range()
LinkTimeRange ==
    /\ pc = "range"
    /\ called_at' = <<clock, clock>>
    /\ time_range' = CompetitorsTimeRange(clock, zone)
    /\ range_by' = [page |-> "bridgeCompetitors", timeframe |-> "Last Month"]
    /\ UNCHANGED <<pc, mainVars, statsVars, offsetVars, clock, zone,
                   poolVars>>

RangeNext ==
    \/ Tick
    \/ FetchTimeRange
    \/ LinkTimeRange

RangeSpec == RangeInit /\ [][RangeNext]_vars

(***************************************************************************)
(* Federation page: get_player_competitions in a thread pool               *)
(***************************************************************************)

\* ThreadPoolExecutor(max_workers=5)
max_workers == 5

\* players_list: the records of u16Players.json; the first has no NBO id.
Player(i) ==
    [Name |-> "player" \o ToString(i),
     NBO |-> IF i = 1 THEN "" ELSE "id" \o ToString(i)]
players_list == [i \in 1..MaxPlayers |-> Player(i)]

AllPlayers == "All Players"

\* Rows tr.temp.hl of the table mpDetails: the number of their td cells.
FedRow(cols) == [cols |-> cols]
FedTables ==
    { <<>>,
      <<FedRow(3)>>,
      <<FedRow(1), FedRow(3)>>,
      <<FedRow(3), FedRow(3), FedRow(3), FedRow(3)>> }

\* What requests.get of the member page comes to: the call raises, or a
\* response with a status arrives, with or without the table mpDetails.
FedResponses ==
    { [raised |-> TRUE, status |-> 0, table |-> FALSE, rows |-> <<>>] } \cup
    { [raised |-> FALSE, status |-> s, table |-> FALSE, rows |-> <<>>] :
        s \in {200, 404, 500} } \cup
    { [raised |-> FALSE, status |-> s, table |-> TRUE, rows |-> t] :
        s \in {200, 500}, t \in FedTables }

\* The outcome of the try block: the list built so far, and whether an
\* exception left the block.
Built(list) == [raised |-> FALSE, list |-> list]
Failed == [raised |-> TRUE, list |-> <<>>]

\* The entry appended for a row of a player.
Competition(player, row) == [player |-> player.Name, cols |-> row.cols]

\* for row in table.select('tr.temp.hl')[:3]: rows of fewer than two cells
\* are skipped.
RECURSIVE RowEntries(_, _, _)
RowEntries(player, rows, i) ==
    IF i > Len(rows) \/ i > 3 THEN <<>>
    ELSE IF rows[i].cols < 2 THEN RowEntries(player, rows, i + 1)
    ELSE <<Competition(player, rows[i])>> \o RowEntries(player, rows, i + 1)

\* The body of the try block for a response.
TryFetch(player, resp) ==
    IF resp.raised THEN Failed
    ELSE IF resp.status >= 400 THEN Failed     \* response.raise_for_status()
    ELSE IF ~resp.table THEN Built(<<>>)
    ELSE Built(RowEntries(player, resp.rows, 1))

\* Mutant: the exception leaves the function.
mutant_FetchReturn(outcome) == outcome

\* except RequestException / except Exception: st.error, then return [].
FetchReturn(outcome) == Built(outcome.list)

\* get_player_competitions(player) when the remote answers resp.
get_player_competitions(player, resp) ==
    IF player.NBO = "" THEN Built(<<>>)
    ELSE FetchReturn(TryFetch(player, resp))

\* The federation page is open, nothing else goes on.
PoolInit ==
    /\ pc = "nbo"
    /\ PageInit
    /\ StatsIdle
    /\ OffsetIdle
    /\ RangeIdle
    /\ PoolIdle

\* Tasks of the pool that a worker thread runs.
Running == {i \in DOMAIN task : task[i] = "running"}

\* Mutant: the executor starts a thread for every task.
mutant_WorkerFree == TRUE

\* A worker thread is idle or can still be created.
WorkerFree == Cardinality(Running) < max_workers

\* The "Fetch Competitions" button: executor.map submits a task per record.
PressFetch ==
    /\ pc \in {"nbo", "fetched"}
    /\ \E sel \in {AllPlayers} \cup {players_list[i].Name : i \in 1..MaxPlayers} :
          /\ selected_player' = sel
          /\ players_to_fetch' =
                IF sel = AllPlayers THEN players_list
                ELSE SelectSeq(players_list, LAMBDA p : p.Name = sel)
    /\ task' = [i \in DOMAIN players_to_fetch' |-> "queued"]
    /\ results' = [i \in DOMAIN players_to_fetch' |-> Built(<<>>)]
    /\ all_competitions' = <<>>
    /\ pc' = "pool"
    /\ UNCHANGED <<mainVars, statsVars, offsetVars, rangeVars>>

\* A worker thread takes the oldest task of the work queue.
TaskStart ==
    /\ pc = "pool"
    /\ WorkerFree
    /\ \E i \in DOMAIN task :
          /\ task[i] = "queued"
          /\ \A j \in 1..(i - 1) : task[j] # "queued"
          /\ task' = [task EXCEPT ![i] = "running"]
    /\ UNCHANGED <<pc, mainVars, statsVars, offsetVars, rangeVars,
                   selected_player, players_to_fetch, results,
                   all_competitions>>

\* A running call of get_player_competitions returns.
TaskReturn ==
    /\ pc = "pool"
    /\ \E i \in Running, resp \in FedResponses :
          /\ results' = [results EXCEPT ![i] =
                            get_player_competitions(players_to_fetch[i], resp)]
          /\ task' = [task EXCEPT ![i] = "done"]
    /\ UNCHANGED <<pc, mainVars, statsVars, offsetVars, rangeVars,
                   selected_player, players_to_fetch, all_competitions>>

\* for result in results: if result: all_competitions.extend(result)
RECURSIVE Extend(_, _)
Extend(rs, i) ==
    IF i > Len(rs) THEN <<>> ELSE rs[i].list \o Extend(rs, i + 1)

\* list(executor.map(...)) has every result; the rows are collected.
Collect ==
    /\ pc = "pool"
    /\ \A i \in DOMAIN task : task[i] = "done"
    /\ \A i \in DOMAIN task : ~results[i].raised
    /\ all_competitions' = Extend(results, 1)
    /\ pc' = "fetched"
    /\ UNCHANGED <<mainVars, statsVars, offsetVars, rangeVars,
                   selected_player, players_to_fetch, task, results>>

PoolNext ==
    \/ PressFetch
    \/ TaskStart
    \/ TaskReturn
    \/ Collect

PoolSpec == PoolInit /\ [][PoolNext]_vars

(***************************************************************************)
(* The application: either page                                            *)
(***************************************************************************)

\* The hand-records page or the federation page is open.
AppInit == Init \/ PoolInit

AppNext == Next \/ PoolNext

AppSpec == AppInit /\ [][AppNext]_vars

(***************************************************************************)
(* Properties                                                              *)
(***************************************************************************)

\* Positions of the running call's requests to a URL with a method.
Issued(method, url) ==
    {i \in 1..Len(reqs) : reqs[i].method = method /\ reqs[i].url = url}

\* A scrape_bbo_hands call has returned and its locals are still in place.
ScrapeReturned == result.of = "scrape"

\* C1: when the final URL of the landing-page pre-check of a fetch shows a
\* login redirect, the call has returned the session-expired outcome (the
\* empty pair with the "Session has expired" message) and the landing-page
\* GET is the only request the call issued: no data GET was made.
C1_RefreshRedirectEndsCall ==
    (refresh_resp.got /\ HasLoginPhp(refresh_resp.url)) =>
        /\ ScrapeReturned
        /\ pc \in {"idle", "loop"}
        /\ result = NonePair
        /\ note = "expired_refresh"
        /\ Len(reqs) = 1
        /\ reqs[1].method = "GET" /\ reqs[1].url = LandingUrl
        /\ Issued("GET", DataUrl) = {}
        /\ ~response.got

C1_Witness ==
    /\ refresh_resp.got
    /\ HasLoginPhp(refresh_resp.url)
    /\ ScrapeReturned
    /\ Len(reqs) = 1

\* C2: login_to_bbo returns a Session exactly when the verification GET of
\* the landing page got a response that contains the logout marker; the
\* text of the login POST response and the result of the handshake do not
\* enter.
C2_VerifiedIffLogoutMarker ==
    result.of = "login" =>
        (~result.isNone <=>
            (test_response.got /\ LogoutMarker \in test_response.text))

\* Scenario A: JavaScript page after the POST, handshake accepted, logout
\* marker on the re-check.
C2_Witness ==
    /\ result = LoginSession
    /\ JsMarker \in login_response.text
    /\ LogoutMarker \notin login_response.text
    /\ timezone_handled = "True"
    /\ LogoutMarker \in test_response.text

\* A request is issued on the stored Session in this step.
FetchPcs == {"scrape_refresh", "scrape_get", "scrape_retry"}
RequestOnStored ==
    /\ \/ pc \in FetchPcs
       \/ pc \in {"tz_post", "tz_get"} /\ caller = "scrape"
    /\ Len(in_flight') = Len(in_flight) + 1

\* C3: once a fetch has seen a login redirect on the stored Session, no
\* request is issued on that Session until a login has stored a new one.
C3_NoRequestOnExpiredSession == [][~(expired_seen /\ RequestOnStored)]_vars

\* C4: the caller can tell the outcomes of a fetch apart: the value returned
\* on a detected session expiry differs from the value returned for the
\* no-saved-hands marker (NoData) and from the one returned when no table
\* is located, which differ from each other, and none of them is a table.
C4_OutcomesDistinguishable ==
    ScrapeReturned =>
        /\ note \in {"expired_refresh", "expired_data"} =>
              result \notin {ReturnNoHands, ReturnNoTable}
        /\ note = "no_hands" => result \notin {ReturnExpired, ReturnNoTable}
        /\ note = "no_table" => result \notin {ReturnExpired, ReturnNoHands}
        /\ note \in {"expired_refresh", "expired_data", "no_hands", "no_table"} =>
              result.isNone

\* C5: when the final URL of the first data response shows a login redirect,
\* the call has returned the session-expired outcome, the handshake was not
\* invoked and table location was not attempted.
C5_DataRedirectEndsCall ==
    (response.got /\ HasLoginPhp(response.url)
        /\ Cardinality(Issued("GET", DataUrl)) = 1) =>
        /\ ScrapeReturned
        /\ result = NonePair
        /\ note = "expired_data"
        /\ how = "skipped"
        /\ Issued("POST", TzUrl) = {} /\ Issued("GET", TzAltUrl) = {}
        /\ timezone_handled = "unset"
        /\ Len(reqs) = 2

C5_Witness ==
    /\ response.got
    /\ HasLoginPhp(response.url)
    /\ Cardinality(Issued("GET", DataUrl)) = 1
    /\ ScrapeReturned
    /\ response.doc # NoDoc

\* The running call is a fetch (its first request is the landing-page GET
\* of scrape_bbo_hands, which login_to_bbo never issues first).
InFetch == pc \in FetchPcs \/ caller = "scrape" \/ ScrapeReturned

\* C6: in a fetch the handshake is invoked only when the data response
\* carries the JavaScript marker, at most once, and is followed by exactly
\* one re-issued data GET after which nothing more is requested: at most two
\* data GETs and one handshake per call, whatever the re-issued response is.
C6_OneHandshakeOneRetry ==
    InFetch =>
        /\ (pc \in {"tz_post", "tz_get"}) => JsMarker \in response.text
        /\ Cardinality(Issued("POST", TzUrl)) <= 1
        /\ Cardinality(Issued("GET", TzAltUrl)) <= 1
        /\ Cardinality(Issued("GET", DataUrl)) <= 2
        /\ (Issued("POST", TzUrl) # {}) => (caller = "scrape")
        /\ (Issued("GET", TzAltUrl) # {}) => (Issued("POST", TzUrl) # {})
        /\ Cardinality(Issued("GET", DataUrl)) = 2 =>
              /\ Issued("POST", TzUrl) # {}
              /\ reqs[Len(reqs)].url = DataUrl
              /\ ScrapeReturned
        /\ (ScrapeReturned /\ caller = "scrape") =>
              Cardinality(Issued("GET", DataUrl)) = 2

\* The re-issued response carries the marker again and the call has ended.
C6_Witness ==
    /\ ScrapeReturned
    /\ Cardinality(Issued("GET", DataUrl)) = 2
    /\ Cardinality(Issued("POST", TzUrl)) = 1
    /\ JsMarker \in response.text
    /\ response.doc # NoDoc

\* C7: when the last data response contains the no-saved-hands marker, the
\* call returns the empty pair (NoData) and table location is not attempted,
\* also when the document holds a table that would be located.
C7_NoHandsBeforeTables ==
    (ScrapeReturned /\ response.got /\ NoHandsMarker \in response.text) =>
        /\ result = ReturnNoHands
        /\ how = "skipped"
        /\ note \in {"no_hands", "expired_data", "error"}
        /\ note = "expired_data" =>
              (HasLoginPhp(response.url) /\ Cardinality(Issued("GET", DataUrl)) = 1)
        /\ note = "error" => JsMarker \in response.text

C7_Witness ==
    /\ ScrapeReturned
    /\ NoHandsMarker \in response.text
    /\ note = "no_hands"
    /\ result = ReturnNoHands
    /\ \E i \in Pos(response.doc) :
          \E k \in 1..Len(table_selectors) :
              Matches(table_selectors[k], response.doc[i])
    /\ \E i \in Pos(response.doc) :
          response.doc[i].nrows > 1 /\ "Date" \in Range(response.doc[i].ths)

\* Table location ran on the last data response.
Located == ScrapeReturned /\ how \in {"selector", "generic", "exhausted"}

\* Table i of doc matches the k-th known selector.
Known(doc, i, k) == Matches(table_selectors[k], doc[i])
KnownTables(doc) ==
    {i \in Pos(doc) : \E k \in 1..Len(table_selectors) : Known(doc, i, k)}

\* Table i of doc passes the generic heuristic: more than one row and a
\* header text that contains "date" in any letter case.
DateTables(doc) ==
    {i \in Pos(doc) :
        /\ doc[i].nrows > 1
        /\ Range(doc[i].ths) \cap {"Date", "date", "DATE"} # {}}

\* C8: when the document holds a table matching a known selector, the table
\* returned is the first table in document order matching the first selector
\* of the list that matches any table, whether or not a table that passes
\* the generic heuristic stands elsewhere (before it) in the document.
C8_KnownSelectorFirst ==
    (Located /\ KnownTables(response.doc) # {}) =>
        /\ ~result.isNone
        /\ result.soup = response.doc
        /\ how = "selector"
        /\ \E k \in 1..Len(table_selectors) :
              /\ Known(response.doc, result.table, k)
              /\ \A i \in Pos(response.doc) :
                    i < result.table => ~Known(response.doc, i, k)
              /\ \A j \in 1..(k - 1) : \A i \in Pos(response.doc) :
                    ~Known(response.doc, i, j)

\* A generic-heuristic table without known mark precedes the returned one.
C8_Witness ==
    /\ Located
    /\ how = "selector"
    /\ result.table = 2
    /\ 1 \in DateTables(response.doc)
    /\ 1 \notin KnownTables(response.doc)

\* C9: when no known selector matches, the call returns the first table in
\* document order that has more than one row and a date-like header label,
\* and the empty pair (NoData) when no table has both.
C9_GenericFallback ==
    (Located /\ KnownTables(response.doc) = {}) =>
        IF DateTables(response.doc) = {}
        THEN result = ReturnNoHands /\ how = "exhausted"
        ELSE /\ result = SoupTable(response.doc, result.table)
             /\ how = "generic"
             /\ result.table \in DateTables(response.doc)
             /\ \A i \in DateTables(response.doc) : result.table <= i

\* The first table fails the heuristic, the second passes.
C9_Witness ==
    /\ Located
    /\ how = "generic"
    /\ result.table = 2
    /\ response.doc[1].nrows = 1
    /\ "Date" \in Range(response.doc[1].ths)

\* The login POST of the running login_to_bbo call, once issued.
LoginPosts == Issued("POST", LoginUrl)

\* Named hidden inputs of the form the login page carried.
NamedInputs == {i \in 1..Len(form.inputs) : form.inputs[i].name # None}
Supplies(name) == \E i \in NamedInputs : form.inputs[i].name = name

Sent == reqs \o in_flight

IsPrefix(s, t) == Len(s) <= Len(t) /\ \A i \in 1..Len(s) : s[i] = t[i]

\* A login_to_bbo call is running or has returned with its locals in place.
InLogin ==
    \/ pc \in {"login_home", "login_page", "login_post", "login_verify"}
    \/ pc \in {"tz_post", "tz_get"} /\ caller = "login"
    \/ result.of = "login"

\* The request sequences of one handshake: none, the POST, the POST and the
\* GET fallback.
HandshakeRuns == {<<>>, <<TzPostRequest>>, <<TzPostRequest, TzAltRequest>>}

\* The full request sequence of a login run around the handshake run h.
LoginOrder(h) ==
    <<HomeRequest, LoginPageRequest, LoginPostRequest(login_data)>> \o h
        \o <<VerifyRequest>>

HandshakeSent == \E i \in 1..Len(Sent) : Sent[i].url \in {TzUrl, TzAltUrl}
VerifySent == \E i \in 1..Len(Sent) : Sent[i] = VerifyRequest

\* C11: the requests of a login run are a prefix of home GET, login-page
\* GET, login POST, handshake, verification GET, where the handshake is there
\* if and only if the login POST response carries the JavaScript marker; the
\* login POST is never repeated (a run that got past step 3 has issued exactly
\* one), nothing is retried but the GET fallback inside the handshake, and a
\* run whose handshake failed still issues the verification GET.
C11_LoginRequestOrder ==
    InLogin =>
        /\ \E h \in HandshakeRuns : IsPrefix(Sent, LoginOrder(h))
        /\ Cardinality({i \in 1..Len(Sent) :
                           Sent[i].method = "POST" /\ Sent[i].url = LoginUrl}) <= 1
        /\ login_response.got => Sent[3] = LoginPostRequest(login_data)
        /\ (HandshakeSent \/ pc \in {"tz_post", "tz_get"}) =>
              (login_response.got /\ JsMarker \in login_response.text)
        /\ (VerifySent \/ pc = "login_verify") =>
              (HandshakeSent <=> JsMarker \in login_response.text)
        /\ (result.of = "login" /\ login_response.got) => reqs[Len(reqs)] = VerifyRequest
        /\ timezone_handled = "False" =>
              \/ pc = "login_verify"
              \/ result.of = "login" /\ reqs[Len(reqs)] = VerifyRequest

\* A login run whose handshake failed after the GET fallback has issued all
\* six requests and has returned.
C11_Witness ==
    /\ result.of = "login"
    /\ timezone_handled = "False"
    /\ reqs = LoginOrder(<<TzPostRequest, TzAltRequest>>)

\* The handshake requests of the running call, in order.
IsTzRequest(q) == q.url \in {TzUrl, TzAltUrl}
TzSent == SelectSeq(Sent, IsTzRequest)

\* handle_timezone_redirect has returned and its caller has not yet got the
\* answer to its next request.
TzJustReturned ==
    timezone_handled # "unset" /\ pc \in {"login_verify", "scrape_retry"}

MarkerIn(r) == r.got /\ LogoutMarker \in r.text

\* C12: a handshake issues the POST of the offset first and the GET variant
\* after it at most once, and only when the POST was answered without the
\* logout marker: at most two requests.  It returns true exactly when the
\* POST response or else the GET response holds the marker, and false when
\* neither does or a request raises; it always returns to its caller, whose
\* run never ends on a handshake request.
C12_HandshakePostThenGet ==
    /\ (pc \in {"tz_post", "tz_get"} \/ TzJustReturned) =>
          /\ IsPrefix(TzSent, <<TzPostRequest, TzAltRequest>>)
          /\ (Len(TzSent) = 2 \/ pc = "tz_get") =>
                (tz_response.got /\ ~MarkerIn(tz_response))
          /\ alt_response.got => Len(TzSent) = 2
    /\ TzJustReturned =>
          /\ Len(TzSent) >= 1
          /\ timezone_handled = "True" <=>
                (MarkerIn(tz_response) \/ MarkerIn(alt_response))
          /\ timezone_handled = "False" <=>
                \/ ~tz_response.got
                \/ ~MarkerIn(tz_response) /\ ~MarkerIn(alt_response)
          /\ (tz_response.got /\ ~MarkerIn(tz_response)) => Len(TzSent) = 2
          /\ ~tz_response.got => Len(TzSent) = 1
    /\ (result.of # "none" /\ reqs # <<>>) => ~IsTzRequest(reqs[Len(reqs)])

\* In a fetch the POST was answered without the marker and the GET variant
\* with it: the handshake has returned true after two requests.
C12_Witness ==
    /\ TzJustReturned
    /\ caller = "scrape"
    /\ timezone_handled = "True"
    /\ ~MarkerIn(tz_response)
    /\ MarkerIn(alt_response)
    /\ Len(TzSent) = 2

\* C13: every request issued by a login, a handshake or a fetch carries a
\* timeout argument of 10 to 15 seconds.
C13_EveryRequestTimed ==
    \A i \in 1..Len(Sent) :
        Sent[i].timeout # NoTimeout /\ Sent[i].timeout \in 10..15

\* C14: at most one request is in flight at any time, during login,
\* handshake, single fetch and the All-Players loop alike: a request is
\* handed to the Session only when the previous one was answered or raised,
\* and the one in flight is the request of the running call's position.
C14_OneRequestInFlight ==
    /\ Len(in_flight) <= 1
    /\ in_flight # <<>> => (pc \in RequestPcs /\ in_flight = <<NextRequest>>)

\* The All-Players loop is at its second fetch: the handshake POST is in
\* flight after the two answered GETs of that call.
C14_Witness ==
    /\ mode = "all"
    /\ idx = Len(Roster)
    /\ in_flight = <<TzPostRequest>>
    /\ Len(reqs) = 2

\* The request q carries a credential, as field or as value.
CarriesCredentials(q) ==
    \/ {"username", "password"} \cap DOMAIN q.data # {}
    \/ \E k \in DOMAIN q.data : q.data[k] \in {Username, Password}

\* C15: no request of a fetch call goes to the login-handler endpoint or
\* carries credentials, whatever the responses are, and the only request of a
\* fetch that is not a GET is the timezone POST.
C15_FetchNeverAuthenticates ==
    InFetch =>
        \A i \in 1..Len(Sent) :
            /\ Sent[i].url # LoginUrl
            /\ ~CarriesCredentials(Sent[i])
            /\ Sent[i].method # "GET" => Sent[i] = TzPostRequest

\* The longest fetch: login redirect absent, JavaScript page, handshake with
\* POST and GET, data GET re-issued; the stored Session had expired before.
C15_Witness ==
    /\ ScrapeReturned
    /\ expired_seen
    /\ reqs = <<RefreshRequest, DataRequest, TzPostRequest, TzAltRequest,
                DataRequest>>

\* manual_login has parsed the pasted text.
ManualParsed == cookies_dict.type # "unset"

\* The mapping a sequence of pairs stands for: of several pairs with one name
\* the last one counts.
LastWins(ps) ==
    [n \in {ps[i].name : i \in 1..Len(ps)} |->
        ps[CHOOSE i \in 1..Len(ps) :
              /\ ps[i].name = n
              /\ \A j \in 1..Len(ps) : ps[j].name = n => j <= i].value]

\* C16: when the pasted text is the JSON list or the name=value lines of a
\* sequence of pairs, the mapping parse_cookie_text returned is the one it
\* returns for the other text of the same pairs: the mapping of each name to
\* the value of its last pair, values with '=' kept whole.
C16_SameMappingBothFormats ==
    (ManualParsed /\ cookie_pairs.known) =>
        LET ps == cookie_pairs.pairs
        IN  /\ cookie_text \in {JsonListText(ps), LinesText(ps)}
            /\ cookies_dict = parse_cookie_text(JsonListText(ps))
            /\ cookies_dict = parse_cookie_text(LinesText(ps))
            /\ cookies_dict = PyDict(LastWins(ps))

\* Lines with a repeated name whose last value contains '='.
C16_Witness ==
    /\ ManualParsed
    /\ cookie_pairs.known
    /\ cookie_text =
          LinesText(<<[name |-> <<"a">>, value |-> <<"1">>],
                      [name |-> <<"a">>, value |-> <<"x", "=", "y">>]>>)
    /\ cookies_dict = PyDict([n \in {<<"a">>} |-> <<"x", "=", "y">>])

\* C17: structured parsing comes first and its value is returned unless it
\* raised, in which case the line format is parsed; what is returned is
\* always a mapping, which add_dict_to_cookiejar loads.
C17_ParseReturnsMapping ==
    ManualParsed =>
        /\ cookies_dict =
              IF StructuredParse(cookie_text).type # "raised"
              THEN StructuredParse(cookie_text) ELSE LineParse(cookie_text)
        /\ cookies_dict.type = "dict"
        /\ Loads(cookies_dict)

\* C18: manual_login returns a Session exactly when the response to its GET
\* of the landing page holds the logout marker; that GET is the request
\* login_to_bbo verifies with and the verdict is the one login_to_bbo would
\* give; it is issued once, after the cookies were loaded; cookies that do
\* not load, a response without marker and a failed request give None.
C18_ManualVerifiedLikeLogin ==
    /\ ManualRequest = VerifyRequest
    /\ result.of = "manual" =>
          /\ ~result.isNone <=> MarkerIn(test_response)
          /\ test_response.got =>
                (~result.isNone <=>
                    LoginVerified(login_response, timezone_handled,
                                  test_response))
          /\ reqs \in {<<>>, <<ManualRequest>>}
          /\ reqs # <<>> <=> Loads(cookies_dict)
    /\ (pc = "manual_verify" \/ result.of = "manual") => ManualParsed
    /\ pc = "manual_verify" => Loads(cookies_dict)

\* A Session from a JSON export of two cookies.
C18_Witness ==
    /\ result = ManualSession
    /\ cookie_text.json.type = "list"
    /\ DOMAIN cookies_dict.val = CookieNames
    /\ has_session

\* extract_player_statistics has returned.
Extracted == pc = "extracted"

\* Some row of the document has a label that contains a known label.
SomeKnownLabel ==
    \E i \in 1..Len(stats_rows) :
        /\ stats_rows[i].th # <<>>
        /\ \E key \in KnownLabels : Contains(Strip(stats_rows[i].th[1]), key)

\* C19: for every document extract_player_statistics returns, without
\* raising, a summary that has the six fields; the summary is all zero when
\* no row label contains a known aggregate label.
C19_ExtractionTotal ==
    Extracted =>
        /\ ~stats.raised
        /\ DOMAIN stats.stats = StatFields
        /\ ~SomeKnownLabel => stats.stats = ZeroStats

\* A document whose rows carry cells but no known label.
C19_Witness ==
    /\ Extracted
    /\ Len(stats_rows) = MaxStatRows
    /\ ~SomeKnownLabel
    /\ \E i \in 1..Len(stats_rows) :
          stats_rows[i].th # <<>> /\ stats_rows[i].cells # <<>>
    /\ stats.stats = ZeroStats

\* A row of an aggregate whose cells all convert, and one with a cell that
\* does not.
WellFormedRow(row) ==
    Branch(row) # "none" /\ ~ProcessRow(row, ZeroStats).raised
MalformedRow(row) == ProcessRow(row, ZeroStats).raised
\* The summary holds the values of the row: processing it again changes
\* nothing.
Reflects(st, row) == ProcessRow(row, st) = Going(st)

\* C20: a well-formed aggregate row that comes after a malformed row, and is
\* the last row of its aggregate, is reflected in the summary returned.
C20_LaterRowsStillExtracted ==
    Extracted =>
        LET rows == total_rows(stats_rows)
        IN  \A i \in 1..Len(rows) :
                ( /\ WellFormedRow(rows[i])
                  /\ \E j \in 1..(i - 1) : MalformedRow(rows[j])
                  /\ \A k \in (i + 1)..Len(rows) :
                        Branch(rows[k]) # Branch(rows[i]) )
                => Reflects(stats.stats, rows[i])

\* The orders of n rows.
Orders(n) ==
    {p \in [1..n -> 1..n] : \A a, b \in 1..n : a # b => p[a] # p[b]}

\* The order p of the rows keeps the rows of one aggregate in their order.
KeepsLabelOrder(rows, p) ==
    \A a, b \in 1..Len(rows) :
        (a < b /\ Branch(rows[p[a]]) = Branch(rows[p[b]])) => p[a] < p[b]

Reordered(rows, p) == [k \in 1..Len(rows) |-> rows[p[k]]]

\* C21: the summary returned is the same for every order of the rows that
\* keeps the rows of one aggregate label in their relative order, and the
\* last row of each aggregate label is the one whose values are returned.
C21_RowOrderIrrelevant ==
    Extracted =>
        LET rows == total_rows(stats_rows)
        IN  /\ \A p \in Orders(Len(rows)) :
                  KeepsLabelOrder(rows, p) =>
                      extract_player_statistics(Reordered(rows, p)) = stats
            /\ \A i \in 1..Len(rows) :
                  ( /\ WellFormedRow(rows[i])
                    /\ \A k \in (i + 1)..Len(rows) :
                          Branch(rows[k]) # Branch(rows[i]) )
                  => Reflects(stats.stats, rows[i])

\* The text of a value cell without the percent sign that ends it.
BeforePercent(text) ==
    IF text # <<>> /\ text[Len(text)] = "%"
    THEN SubSeq(text, 1, Len(text) - 1)
    ELSE text

\* Row i of the rows is an MPs Average row that the loop reaches and that no
\* later MPs Average row overwrites.
EffectiveMPsRow(rows, i) ==
    /\ Branch(rows[i]) = "MPs Average"
    /\ Find(rows[i], {"score"}) # NoCell
    /\ \A j \in 1..(i - 1) : ~MalformedRow(rows[j])
    /\ \A k \in (i + 1)..Len(rows) : Branch(rows[k]) # "MPs Average"

Rounded(a, b) ==
    LET q == a \div b
        r == a % b
    IN  IF 2 * r < b THEN q
        ELSE IF 2 * r > b THEN q + 1
        ELSE IF q % 2 = 0 THEN q ELSE q + 1

\* C23: for every UTC offset of whole seconds, positive or negative, the
\* result of get_local_timezone_offset is the offset in minutes, rounded,
\* and the 'offset' field of the timezone POST is that number.
C23_OffsetIsRoundedMinutes ==
    /\ pc \in {"offset_done", "tz_data"} => offset = Rounded(utc_offset, 60)
    /\ pc = "tz_data" => tz_data["offset"] = StrOfInt(Rounded(utc_offset, 60))

\* C24: in every zone of the caller the end_time of a data-request URL is
\* the epoch second (UTC) of a moment of the call that computed it, the
\* start_time is such a moment minus the window, start_time <= end_time, and
\* no call returns the range of an earlier moment.
C24_TimeRangeIsUtcEpoch ==
    range_by.page # "none" =>
        LET window == Days(range_by.timeframe) * Day
            start_time == time_range[1]
            end_time == time_range[2]
        IN  /\ called_at[1] <= end_time /\ end_time <= called_at[2]
            /\ called_at[1] - window <= start_time
            /\ start_time <= called_at[2] - window
            /\ start_time <= end_time

\* A task of the pool returns in the step.
Returns(i) ==
    /\ pc = "pool" /\ pc' = "pool"
    /\ task[i] = "running" /\ task'[i] = "done"

\* C26: never more than 5 get_player_competitions calls are in flight; a
\* task that returns wrote its own result only, from its own player record,
\* and no step changes the result of a task that does not return in it.
C26_PoolOfFive ==
    /\ [](Cardinality(Running) <= 5)
    /\ [][pc = "pool" /\ pc' = "pool" =>
            \A i \in DOMAIN task :
                /\ results'[i] # results[i] => Returns(i)
                /\ Returns(i) =>
                      /\ \A k \in 1..Len(results'[i].list) :
                            results'[i].list[k].player =
                                players_to_fetch[i].Name
                      /\ \A j \in DOMAIN task \ {i} :
                            results'[j] = results[j] /\ task'[j] = task[j]]_vars

\* Five calls are in flight and a further task waits in the queue for
\* one of them to return.
C26_Witness ==
    /\ pc = "pool"
    /\ selected_player = AllPlayers
    /\ Cardinality(Running) = 5
    /\ \E i \in DOMAIN task : task[i] = "queued"

\* C28: whatever hidden inputs the login form carries, the login POST holds
\* the caller's username and password, the submit marker 'Login' and the
\* stay-signed-in flag 'on'.
C28_CredentialsNeverOverridden ==
    \A p \in LoginPosts :
        LET body == reqs[p].data
        IN  /\ body["username"] = Username
            /\ body["password"] = Password
            /\ body["submit"] = "Login"
            /\ body["keep"] = "on"

\* login_to_bbo has returned.
LoginReturned == pc = "idle" /\ result.of = "login"

\* C27: once login_to_bbo has returned, the password is in nothing the page
\* keeps and in nothing the call wrote, and the failure analysis consists of
\* status code, final URL and response length only.
C27_PasswordConfined ==
    LoginReturned =>
        /\ Password \notin Range(stored_proxy.url)
        /\ Password \notin Range(analysis.form_data)
        /\ analysis.labels \subseteq
              {"Status Code:", "Final URL:", "Response Length:"}

\* C29: a (document, table) pair that scrape_bbo_hands returned was parsed
\* from a data response, the re-issued one included, whose final URL shows
\* no login redirect and whose body carries no JavaScript marker.
C29_PairFromCheckedResponse ==
    (ScrapeReturned /\ ~result.isNone) =>
        /\ response.got
        /\ result.soup = response.doc
        /\ ~HasLoginPhp(response.url)
        /\ JsMarker \notin response.text

\* The step ends a login_to_bbo or manual_login call.
LoginEnds == pc # "idle" /\ pc' = "idle" /\ result'.of \in {"login", "manual"}

\* C30: the stored session and the stored proxy configuration change only
\* in a step in which login_to_bbo or manual_login returns a Session whose
\* landing-page response carried the logout marker, and then to that Session
\* and the proxy configuration of that run; a login or import that fails
\* leaves both as they were, and no step removes a stored session.
C30_StoredOnlyFromVerifiedLogin ==
    [][ /\ (has_session' # has_session \/ stored_proxy' # stored_proxy
              \/ (expired_seen /\ ~expired_seen'))
           => /\ LoginEnds
              /\ ~result'.isNone
              /\ MarkerIn(test_response')
              /\ has_session'
              /\ stored_proxy' = proxy_config
        /\ (LoginEnds /\ result'.isNone)
           => (has_session' = has_session /\ stored_proxy' = stored_proxy)
        /\ has_session => (has_session' /\ stored_proxy' # UnsetProxy)
      ]_vars

\* A login through a proxy failed while a Session of a manual import, stored
\* without proxy, stays in place.
C30_Witness ==
    /\ pc = "idle"
    /\ result = LoginNone
    /\ analysis.labels # {}
    /\ Len(reqs) = 4
    /\ has_session
    /\ stored_proxy = NoProxy
    /\ expired_seen

\* The handshake was started and is over.
HandshakeOver == caller # "none" /\ pc \notin {"tz_post", "tz_get"}

\* C25: whatever the remote answers and wherever a request fails, every
\* operation ends with a value of its kind: login_to_bbo with a Session or
\* None, handle_timezone_redirect with True or False, scrape_bbo_hands with a
\* (document, table) pair or the empty pair, the federation fetch with a list.
C25_NoUnhandledFault ==
    /\ result.of = "login" => result \in {LoginSession, LoginNone}
    /\ HandshakeOver => timezone_handled \in {"True", "False"}
    /\ result.of = "scrape" =>
          \/ result = NonePair
          \/ /\ result.table \in 1..Len(result.soup)
             /\ result = SoupTable(result.soup, result.table)
    /\ \A i \in DOMAIN task : task[i] = "done" => ~results[i].raised

\* The handshake of a fetch ended without success after both of its
\* requests, and the re-issued data GET raised: the call returned the empty
\* pair.
C25_Witness ==
    /\ pc = "idle"
    /\ result = NonePair
    /\ note = "error"
    /\ timezone_handled = "False"
    /\ Len(reqs) = 5

(***************************************************************************)
(* Default headers after the timezone handshake                            *)
(***************************************************************************)

\* The Session the running call works on.
InUse == IF OnStored THEN stored_session ELSE session

\* The step hands a request to the Session in use.
Hands == Len(in_flight') = Len(in_flight) + 1

\* The header names the handshake sets.
TzNames == {"Content-Type", "Referer"}

\* The headers hold the form content type and the landing endpoint as
\* referer.
CarriesBoth(headers) ==
    /\ TzNames \subseteq DOMAIN headers
    /\ headers["Content-Type"] = FormUrlencoded
    /\ headers["Referer"] = LandingUrl

\* A Session the handshake has posted on still has both defaults.
Kept(s) == s.handshaken => CarriesBoth(s.headers)

\* The step that hands the handshake POST to the Session sets the two
\* defaults and leaves every other default header as it was.
HandshakeSets ==
    (pc = "tz_post" /\ Hands) =>
        /\ CarriesBoth(InUse'.headers)
        /\ DOMAIN InUse'.headers = DOMAIN InUse.headers \cup TzNames
        /\ \A name \in DOMAIN InUse.headers \ TzNames :
              InUse'.headers[name] = InUse.headers[name]

\* A request handed to a Session the handshake has posted on goes out with
\* both headers.
LaterCarries == (Hands /\ InUse.handshaken) => CarriesBoth(carried')

\* C31: every handle_timezone_redirect call that reaches its POST sets the
\* default headers Content-Type (form-urlencoded) and Referer (landing
\* endpoint) of the Session and changes no other default header; the two are
\* never restored, so every later request on that Session goes out with
\* them, the re-issued data GET of a fetch and the verification GET of a
\* login included.
C31_HandshakeHeadersStay ==
    /\ [](Kept(session) /\ Kept(stored_session))
    /\ [][HandshakeSets /\ LaterCarries]_vars

\* The re-issued data GET of a fetch is in flight on a stored Session that a
\* login built: it goes out with both headers and with the Sec-Fetch headers
\* of the call.
C31_Witness ==
    /\ pc = "scrape_retry"
    /\ in_flight = <<DataRequest>>
    /\ stored_session.handshaken
    /\ "Origin" \in DOMAIN stored_session.headers
    /\ CarriesBoth(carried)
    /\ "Sec-Fetch-Dest" \in DOMAIN carried

====
